---- MODULE Spec2Model ----
(***************************************************************************)
(* A model of pip-browse's metadata parser (metadata_parser.parse_metadata) *)
(* and dependency extractor (PyPIBrowser.extract_dependencies), of         *)
(* Dependency.__repr__ and of extract_required_python_version, and of the  *)
(* PyPIBrowser methods and the commands that fetch from pypi-browser.org   *)
(* and pypi.org.                                                           *)
(*                                                                         *)
(* Python str values are TLA+ strings; TLC evaluates Len, SubSeq and \o on *)
(* them.  A Python value that is "a str or a list of str" is a record      *)
(* [kind, items] (Str, List below); an Optional[str] is a sequence of      *)
(* length 0 (None) or 1.                                                   *)
(***************************************************************************)
EXTENDS Integers, Sequences, FiniteSets, TLC

VARIABLES
    \* parse_metadata
    metadata_text,      \* the argument
    lines,              \* metadata_text.strip().splitlines()
    header_lines,
    description_lines,
    in_description,
    li,                 \* position of the running for-loop (1-based)
    key,                \* Optional[str]: <<>> is None
    result,             \* Dict[str, Union[str, List[str]]]
    pc,                 \* "partition", "header", "description", "return", "done", "raised"
    \* extract_dependencies
    metadata,               \* the argument
    requires_dist,
    ri,                     \* position of the for-loop over requires_dist (1-based)
    dependencies,
    optional_dependencies,
    dpc,                    \* "start", "loop", "return", "done", "raised"
    \* Dependency.__repr__ and str()
    self,                   \* the Dependency
    rendered,               \* the returned str
    rpc,                    \* "start", "repr", "str"
    \* extract_required_python_version
    classifier_metadata,    \* the argument
    classifiers,
    specific_versions,
    ci,                     \* position of the running for-loop (1-based)
    version,                \* the returned str
    vpc,                    \* "start", "specific", "generic", "done"
    \* calls that another thread has started and that are not running now
    suspended,
    \* PyPIBrowser.get_package_tags
    package_name,       \* the argument
    package_page,       \* what pypi-browser.org returned for the package page
    pypi_response,      \* what pypi.org returned for the package's JSON
    browser_tags,
    pypi_data,
    enriched_tags,
    tpc,                \* "idle", "start", "scrape", "fetch_json", "load_json",
                        \* "enrich", "return", "done", "raised"
    \* PyPIBrowser.get_package_metadata
    wheel_url,          \* the argument
    metadata_page,      \* what pypi-browser.org returned for the METADATA page
    json_response,      \* what pypi.org returned for the package's JSON
    browser_metadata,
    pypi_metadata,
    merged_metadata,
    mpc,                \* "idle", "start", "page", "parsing", "json_url", "json",
                        \* "merge", "return", "done", "raised"
    \* PackageInfo.from_package_name
    fpc,                \* "idle", "start", "tags", "metadata", "raised"
    error,              \* the type of the exception it raised ("" if none)
    \* the commands of __main__
    command,            \* "tags", "wheels", "info", "metadata" ("" if none runs)
    package_spec,       \* the argument
    output_json,        \* the --json flag
    echoed,             \* what click.echo was called with, in order
    exit_status,        \* Optional[int]: the status the process exited with
    cpc                 \* "idle", "start", "try", "tags", "metadata", "exited"

parse_vars == <<metadata_text, lines, header_lines, description_lines,
                in_description, li, key, result, pc>>

deps_vars == <<metadata, requires_dist, ri, dependencies, optional_dependencies, dpc>>

repr_vars == <<self, rendered, rpc>>

version_vars == <<classifier_metadata, classifiers, specific_versions, ci, version, vpc>>

tags_vars == <<package_name, package_page, pypi_response, browser_tags, pypi_data,
               enriched_tags, tpc>>

\* PyPIBrowser's fetching methods and the commands
metadata_vars == <<wheel_url, metadata_page, json_response, browser_metadata,
                   pypi_metadata, merged_metadata, mpc>>

from_vars == <<fpc, error>>

command_vars == <<command, package_spec, output_json, echoed, exit_status, cpc>>

browser_vars == <<tags_vars, metadata_vars, from_vars, command_vars>>

\* what is neither parse_metadata's nor extract_dependencies'
other_vars == <<repr_vars, version_vars, suspended, browser_vars>>

vars == <<parse_vars, deps_vars, other_vars>>

-----------------------------------------------------------------------------
(* Bounds of the checked inputs *)

MaxLines == 4

MaxReqs == 3

MaxClassifiers == 3

MaxCards == 2

MaxPageLines == 3

-----------------------------------------------------------------------------
(* Python str primitives *)

Max(S) == CHOOSE x \in S : \A y \in S : x >= y

Ch(s, i) == SubSeq(s, i, i)

From(s, i) == SubSeq(s, i, Len(s))

\* the characters str.strip() removes and the regex class \s matches
Whitespace == {" ", "\t", "\n", "\r", "\f"}

\* the line boundaries of str.splitlines()
LineBreaks == {"\n", "\r", "\f"}

Letters == {"a","b","c","d","e","f","g","h","i","j","k","l","m",
            "n","o","p","q","r","s","t","u","v","w","x","y","z",
            "A","B","C","D","E","F","G","H","I","J","K","L","M",
            "N","O","P","Q","R","S","T","U","V","W","X","Y","Z"}

Digits == {"0","1","2","3","4","5","6","7","8","9"}

\* the first position >= i of s whose character is not in class (Len(s) + 1 if none)
RECURSIVE SkipClass(_, _, _)
SkipClass(s, i, class) ==
    IF i <= Len(s) /\ Ch(s, i) \in class THEN SkipClass(s, i + 1, class) ELSE i

\* the last position <= i of s whose character is not in class (0 if none)
RECURSIVE SkipClassBack(_, _, _)
SkipClassBack(s, i, class) ==
    IF i >= 1 /\ Ch(s, i) \in class THEN SkipClassBack(s, i - 1, class) ELSE i

\* the first position >= i of s whose character is in class (Len(s) + 1 if none)
RECURSIVE FindClass(_, _, _)
FindClass(s, i, class) ==
    IF i <= Len(s) /\ Ch(s, i) \notin class THEN FindClass(s, i + 1, class) ELSE i

\* str.strip()
Strip(s) ==
    LET a == SkipClass(s, 1, Whitespace)
    IN  IF a > Len(s) THEN "" ELSE SubSeq(s, a, SkipClassBack(s, Len(s), Whitespace))

\* str.splitlines()
RECURSIVE SplitLines(_)
SplitLines(s) ==
    IF s = "" THEN <<>>
    ELSE LET i == FindClass(s, 1, LineBreaks)
         IN  IF i > Len(s) THEN <<s>>
             ELSE LET n == IF Ch(s, i) = "\r" /\ i < Len(s) /\ Ch(s, i + 1) = "\n"
                           THEN 2 ELSE 1
                  IN  <<SubSeq(s, 1, i - 1)>> \o SplitLines(From(s, i + n))

\* sep.join(seq)
RECURSIVE Join(_, _)
Join(seq, sep) ==
    IF seq = <<>> THEN ""
    ELSE IF Len(seq) = 1 THEN seq[1]
    ELSE seq[1] \o sep \o Join(Tail(seq), sep)

\* the length of the longest prefix of s made of characters of class
RunLen(s, class) == SkipClass(s, 1, class) - 1

-----------------------------------------------------------------------------
(* Union[str, List[str]] *)

Str(s) == [kind |-> "str", items |-> <<s>>]
List(q) == [kind |-> "list", items |-> q]
IsList(v) == v.kind = "list"
IsStr(v) == v.kind = "str"

\* a dict as a function; d[k] = v on a copy of d
DictSet(d, k, v) == [x \in DOMAIN d \cup {k} |-> IF x = k THEN v ELSE d[x]]

EmptyDict == [x \in {} |-> Str("")]

-----------------------------------------------------------------------------
(* parse_metadata *)

\* a mutant of multi_fields: one declared field is missing
multi_fields_Short == {"Classifier", "Requires-Dist", "Provides-Extra", "Project-URL"}

\* lines 52-55
multi_fields == {"Classifier", "Requires-Dist", "Provides-Extra",
                 "Project-URL", "License-File"}

KeyChars == Letters \cup Digits \cup {"-"}

\* a mutant of MatchKeyValue: the key is any run of characters up to the first
\* colon, r'^([^:]+):\s*(.*)$'
MatchKeyValue_AnyKey(line) ==
    LET c == FindClass(line, 1, {":"})
    IN  IF c >= 2 /\ c <= Len(line)
        THEN [ok |-> TRUE, key |-> Strip(SubSeq(line, 1, c - 1)),
              value |-> Strip(From(line, c + 1))]
        ELSE [ok |-> FALSE, key |-> "", value |-> ""]

\* re.match(r'^([A-Za-z0-9-]+):\s*(.*)$', line) followed by the two strips;
\* a line holds no line break, so (.*)$ takes the rest of it
MatchKeyValue(line) ==
    LET n == RunLen(line, KeyChars)
    IN  IF n >= 1 /\ n < Len(line) /\ Ch(line, n + 1) = ":"
        THEN [ok |-> TRUE, key |-> Strip(SubSeq(line, 1, n)),
              value |-> Strip(From(line, n + 2))]
        ELSE [ok |-> FALSE, key |-> "", value |-> ""]

\* a mutant of IsContinuation: a line that starts with a tab continues too
IsContinuation_SpaceOrTab(line, k) ==
    Len(line) >= 1 /\ Ch(line, 1) \in {" ", "\t"} /\ k # <<>>

\* line.startswith(' ') and key
IsContinuation(line, k) == Len(line) >= 1 /\ Ch(line, 1) = " " /\ k # <<>>

\* a mutant of AppendContinuation: the text is glued onto the first element
AppendContinuation_First(v, value) ==
    IF IsList(v)
    THEN List([v.items EXCEPT ![1] = @ \o " " \o value])
    ELSE Str(v.items[1] \o " " \o value)

\* lines 41-44: glue value onto the last stored value
AppendContinuation(v, value) ==
    IF IsList(v)
    THEN List([v.items EXCEPT ![Len(v.items)] = @ \o " " \o value])
    ELSE Str(v.items[1] \o " " \o value)

\* a mutant of StoreValue: an empty value is not recorded
StoreValue_SkipEmpty(res, k, value) ==
    IF value = "" THEN res
    ELSE IF k \in DOMAIN res
    THEN DictSet(res, k, List((IF IsList(res[k]) THEN res[k].items
                                                 ELSE <<res[k].items[1]>>)
                              \o <<value>>))
    ELSE DictSet(res, k, IF k \in multi_fields THEN List(<<value>>) ELSE Str(value))

\* a mutant of StoreValue: a repeated value is put in front of the earlier ones
StoreValue_Prepend(res, k, value) ==
    IF k \in DOMAIN res
    THEN DictSet(res, k, List(<<value>> \o (IF IsList(res[k]) THEN res[k].items
                                                              ELSE <<res[k].items[1]>>)))
    ELSE DictSet(res, k, IF k \in multi_fields THEN List(<<value>>) ELSE Str(value))

\* a mutant of StoreValue: every field is stored as a list from the first value
StoreValue_AlwaysList(res, k, value) ==
    IF k \in DOMAIN res
    THEN DictSet(res, k, List(res[k].items \o <<value>>))
    ELSE DictSet(res, k, List(<<value>>))

\* lines 57-62: record one KEY: value occurrence
StoreValue(res, k, value) ==
    IF k \in DOMAIN res
    THEN DictSet(res, k, List((IF IsList(res[k]) THEN res[k].items
                                                 ELSE <<res[k].items[1]>>)
                              \o <<value>>))
    ELSE DictSet(res, k, IF k \in multi_fields THEN List(<<value>>) ELSE Str(value))

\* a mutant of TextLines: the document is split without the global strip
TextLines_NoStrip(text) == SplitLines(text)

\* line 20
TextLines(text) == SplitLines(Strip(text))

\* a mutant of IsBlank: the line is compared without trimming
IsBlank_NoTrim(line) == line = ""

\* line 28
IsBlank(line) == Strip(line) = ""

\* a mutant of HasDescription: the Description is stored unconditionally
HasDescription_Always(dlines) == TRUE

\* line 65
HasDescription(dlines) == dlines # <<>>

\* The documents parse_metadata is run on: up to MaxLines lines, joined by
\* newlines, all drawn from one of the line sets: the core lines (a scalar key
\* with two values, a multi-valued key, a continuation line, a blank line), or
\* one special line in the context of a key line, a continuation and a blank.
CoreLines == {"Name: a", "Name: b", "Classifier: c", " x", ""}

ContextLines == {"Name: a", " x", ""}

SpecialLines == {"junk", "Description: d", "Name:", "\ty", " ", "Bad_Key: v",
                 "Requires-Dist: r", "Provides-Extra: e", "Project-URL: u",
                 "License-File: f"}

LineSets == {CoreLines} \cup {ContextLines \cup {special} : special \in SpecialLines}

LineSeqs(pool) == UNION {[1..n -> pool] : n \in 0..MaxLines}

\* extract_dependencies is not running
DepsIdle ==
    /\ metadata = EmptyDict
    /\ requires_dist = <<>>
    /\ ri = 1
    /\ dependencies = <<>>
    /\ optional_dependencies = [x \in {} |-> <<>>]
    /\ dpc = "idle"

\* Dependency.__repr__ is not running
ReprIdle ==
    /\ self = [package |-> "", condition |-> <<>>]
    /\ rendered = ""
    /\ rpc = "idle"

\* extract_required_python_version is not running
VersionIdle ==
    /\ classifier_metadata = EmptyDict
    /\ classifiers = <<>>
    /\ specific_versions = <<>>
    /\ ci = 1
    /\ version = ""
    /\ vpc = "idle"

\* one thread
NoneSuspended == suspended = <<>>

\* get_package_tags is not running
TagsIdle ==
    /\ package_name = ""
    /\ package_page = <<>>
    /\ pypi_response = [kind |-> "none"]
    /\ browser_tags = <<>>
    /\ pypi_data = [kind |-> "none"]
    /\ enriched_tags = <<>>
    /\ tpc = "idle"

\* get_package_metadata is not running
MetadataIdle ==
    /\ wheel_url = ""
    /\ metadata_page = <<>>
    /\ json_response = [kind |-> "none"]
    /\ browser_metadata = EmptyDict
    /\ pypi_metadata = EmptyDict
    /\ merged_metadata = EmptyDict
    /\ mpc = "idle"

\* from_package_name is not running
FromIdle == fpc = "idle" /\ error = ""

\* no command is running
CommandIdle ==
    /\ command = ""
    /\ package_spec = ""
    /\ output_json = FALSE
    /\ echoed = <<>>
    /\ exit_status = <<>>
    /\ cpc = "idle"

\* no PyPIBrowser method and no command is running
BrowserIdle == TagsIdle /\ MetadataIdle /\ FromIdle /\ CommandIdle

ParseInit ==
    /\ \E pool \in LineSets : \E ls \in LineSeqs(pool) :
           metadata_text = Join(ls, "\n")
    /\ lines = TextLines(metadata_text)
    /\ header_lines = <<>>
    /\ description_lines = <<>>
    /\ in_description = FALSE
    /\ li = 1
    /\ key = <<>>
    /\ result = EmptyDict
    /\ pc = "partition"
    /\ DepsIdle
    /\ ReprIdle
    /\ VersionIdle
    /\ NoneSuspended
    /\ BrowserIdle

\* lines 26-33, one iteration: the first blank line switches to the description
PartitionBlank ==
    /\ pc = "partition" /\ li <= Len(lines)
    /\ ~in_description /\ IsBlank(lines[li])
    /\ in_description' = TRUE
    /\ li' = li + 1
    /\ UNCHANGED deps_vars
    /\ UNCHANGED other_vars
    /\ UNCHANGED <<metadata_text, lines, header_lines, description_lines, key, result, pc>>

PartitionHeader ==
    /\ pc = "partition" /\ li <= Len(lines)
    /\ ~in_description /\ ~IsBlank(lines[li])
    /\ header_lines' = Append(header_lines, lines[li])
    /\ li' = li + 1
    /\ UNCHANGED deps_vars
    /\ UNCHANGED other_vars
    /\ UNCHANGED <<metadata_text, lines, description_lines, in_description, key, result, pc>>

PartitionDescription ==
    /\ pc = "partition" /\ li <= Len(lines)
    /\ in_description
    /\ description_lines' = Append(description_lines, lines[li])
    /\ li' = li + 1
    /\ UNCHANGED deps_vars
    /\ UNCHANGED other_vars
    /\ UNCHANGED <<metadata_text, lines, header_lines, in_description, key, result, pc>>

PartitionEnd ==
    /\ pc = "partition" /\ li > Len(lines)
    /\ pc' = "header"
    /\ li' = 1
    /\ UNCHANGED deps_vars
    /\ UNCHANGED other_vars
    /\ UNCHANGED <<metadata_text, lines, header_lines, description_lines,
                   in_description, key, result>>

\* lines 39-45
ContinuationLine ==
    /\ pc = "header" /\ li <= Len(header_lines)
    /\ IsContinuation(header_lines[li], key)
    /\ IF key[1] \in DOMAIN result
       THEN /\ result' = [result EXCEPT ![key[1]] =
                             AppendContinuation(@, Strip(header_lines[li]))]
            /\ li' = li + 1
            /\ pc' = pc
       ELSE \* result[key] raises KeyError
            /\ pc' = "raised"
            /\ UNCHANGED <<result, li>>
    /\ UNCHANGED deps_vars
    /\ UNCHANGED other_vars
    /\ UNCHANGED <<metadata_text, lines, header_lines, description_lines,
                   in_description, key>>

\* lines 48-62
KeyValueLine ==
    /\ pc = "header" /\ li <= Len(header_lines)
    /\ ~IsContinuation(header_lines[li], key)
    /\ MatchKeyValue(header_lines[li]).ok
    /\ key' = <<MatchKeyValue(header_lines[li]).key>>
    /\ result' = StoreValue(result, MatchKeyValue(header_lines[li]).key,
                                    MatchKeyValue(header_lines[li]).value)
    /\ li' = li + 1
    /\ UNCHANGED deps_vars
    /\ UNCHANGED other_vars
    /\ UNCHANGED <<metadata_text, lines, header_lines, description_lines,
                   in_description, pc>>

\* a mutant of IgnoredLine: a line that is no field ends the current key
IgnoredLine_ResetsKey ==
    /\ pc = "header" /\ li <= Len(header_lines)
    /\ ~IsContinuation(header_lines[li], key)
    /\ ~MatchKeyValue(header_lines[li]).ok
    /\ li' = li + 1
    /\ key' = <<>>
    /\ UNCHANGED deps_vars
    /\ UNCHANGED other_vars
    /\ UNCHANGED <<metadata_text, lines, header_lines, description_lines,
                   in_description, result, pc>>

\* line 49, no match: the loop goes on to the next line
IgnoredLine ==
    /\ pc = "header" /\ li <= Len(header_lines)
    /\ ~IsContinuation(header_lines[li], key)
    /\ ~MatchKeyValue(header_lines[li]).ok
    /\ li' = li + 1
    /\ UNCHANGED deps_vars
    /\ UNCHANGED other_vars
    /\ UNCHANGED <<metadata_text, lines, header_lines, description_lines,
                   in_description, key, result, pc>>

HeaderEnd ==
    /\ pc = "header" /\ li > Len(header_lines)
    /\ pc' = "description"
    /\ UNCHANGED deps_vars
    /\ UNCHANGED other_vars
    /\ UNCHANGED <<metadata_text, lines, header_lines, description_lines,
                   in_description, li, key, result>>

\* lines 65-66
AddDescription ==
    /\ pc = "description"
    /\ result' = IF HasDescription(description_lines)
                 THEN DictSet(result, "Description",
                              Str(Strip(Join(description_lines, "\n"))))
                 ELSE result
    /\ pc' = "return"
    /\ UNCHANGED deps_vars
    /\ UNCHANGED other_vars
    /\ UNCHANGED <<metadata_text, lines, header_lines, description_lines,
                   in_description, li, key>>

\* line 68
Return ==
    /\ pc = "return"
    /\ pc' = "done"
    /\ UNCHANGED deps_vars
    /\ UNCHANGED other_vars
    /\ UNCHANGED <<metadata_text, lines, header_lines, description_lines,
                   in_description, li, key, result>>

ParseNext ==
    \/ PartitionBlank
    \/ PartitionHeader
    \/ PartitionDescription
    \/ PartitionEnd
    \/ ContinuationLine
    \/ KeyValueLine
    \/ IgnoredLine
    \/ HeaderEnd
    \/ AddDescription
    \/ Return

SpecParse == ParseInit /\ [][ParseNext]_vars

\* The documents parse_metadata is run on to see which lines it takes for
\* KEY: value lines: one line of a particular shape before its first colon, in
\* the context of a key line, a continuation and a blank.
KeyShapes == {"a-1: v", "-: v", "k:v:w", "A_b: v", "a b: v", "a.b: v",
              "Name : v", ": v", "novalue"}

KeyLineSets == {ContextLines \cup {shape} : shape \in KeyShapes}

KeysInit ==
    /\ \E pool \in KeyLineSets : \E ls \in LineSeqs(pool) :
           metadata_text = Join(ls, "\n")
    /\ lines = TextLines(metadata_text)
    /\ header_lines = <<>>
    /\ description_lines = <<>>
    /\ in_description = FALSE
    /\ li = 1
    /\ key = <<>>
    /\ result = EmptyDict
    /\ pc = "partition"
    /\ DepsIdle
    /\ ReprIdle
    /\ VersionIdle
    /\ NoneSuspended
    /\ BrowserIdle

SpecKeys == KeysInit /\ [][ParseNext]_vars

-----------------------------------------------------------------------------
(* extract_dependencies *)

\* the character at position i of s, "" outside s
ChAt(s, i) == IF i >= 1 /\ i <= Len(s) THEN SubSeq(s, i, i) ELSE ""

Quotes == {"'", "\""}

\* the letters of the keyword extra under re.IGNORECASE
ExtraWord == <<{"e", "E"}, {"x", "X"}, {"t", "T"}, {"r", "R"}, {"a", "A"}>>

NoMatch == [ok |-> FALSE, stop |-> 0, name |-> ""]

\* _EXTRA_RE = ;\s*extra\s*==\s*['"]([^'"]+)['"] tried at position i of s:
\* the position of the closing quote and the captured name
MatchExtraAt(s, i) ==
    IF ChAt(s, i) # ";" THEN NoMatch
    ELSE LET w == SkipClass(s, i + 1, Whitespace)
         IN  IF \E j \in 1..5 : ChAt(s, w + j - 1) \notin ExtraWord[j] THEN NoMatch
             ELSE LET e == SkipClass(s, w + 5, Whitespace)
                  IN  IF ChAt(s, e) # "=" \/ ChAt(s, e + 1) # "=" THEN NoMatch
                      ELSE LET q == SkipClass(s, e + 2, Whitespace)
                               c == FindClass(s, q + 1, Quotes)
                           IN  IF ChAt(s, q) \in Quotes /\ c > q + 1 /\ c <= Len(s)
                               THEN [ok |-> TRUE, stop |-> c,
                                     name |-> SubSeq(s, q + 1, c - 1)]
                               ELSE NoMatch

\* _EXTRA_RE.findall(s): the captured names of the non-overlapping matches,
\* scanning s from position i
RECURSIVE FindAllFrom(_, _)
FindAllFrom(s, i) ==
    IF i > Len(s) THEN <<>>
    ELSE IF MatchExtraAt(s, i).ok
         THEN <<MatchExtraAt(s, i).name>> \o FindAllFrom(s, MatchExtraAt(s, i).stop + 1)
         ELSE FindAllFrom(s, i + 1)

FindAllExtras(s) == FindAllFrom(s, 1)

\* _EXTRA_RE.sub("", s): s without the matched spans, scanning from position i
RECURSIVE SubFrom(_, _)
SubFrom(s, i) ==
    IF i > Len(s) THEN ""
    ELSE IF MatchExtraAt(s, i).ok
         THEN SubFrom(s, MatchExtraAt(s, i).stop + 1)
         ELSE Ch(s, i) \o SubFrom(s, i + 1)

SubExtras(s) == SubFrom(s, 1)

PkgChars == Letters \cup Digits \cup {"_", ".", "-"}

\* a mutant of MatchPackage: the package name may be empty
MatchPackage_NoToken(req_clean) ==
    LET n == RunLen(req_clean, PkgChars)
        r == SkipClass(req_clean, n + 1, Whitespace)
    IN  IF FindClass(req_clean, r, {"\n"}) > Len(req_clean)
        THEN [ok |-> TRUE, pkg |-> SubSeq(req_clean, 1, n), rest |-> From(req_clean, r)]
        ELSE [ok |-> FALSE, pkg |-> "", rest |-> ""]

\* re.match(r"^([A-Za-z0-9_.\-]+)\s*(.*)$", req_clean): req_clean is stripped, and
\* "." matches no newline, so after the longest name and the longest run of
\* whitespace the rest must hold no newline (shorter runs leave it in the rest)
MatchPackage(req_clean) ==
    LET n == RunLen(req_clean, PkgChars)
        r == SkipClass(req_clean, n + 1, Whitespace)
    IN  IF n >= 1 /\ FindClass(req_clean, r, {"\n"}) > Len(req_clean)
        THEN [ok |-> TRUE, pkg |-> SubSeq(req_clean, 1, n), rest |-> From(req_clean, r)]
        ELSE [ok |-> FALSE, pkg |-> "", rest |-> ""]

\* a mutant of Condition: an empty remainder is kept as the empty string
Condition_KeepEmpty(rest) == <<Strip(rest)>>

\* line 448: rest.strip() or None
Condition(rest) == IF Strip(rest) = "" THEN <<>> ELSE <<Strip(rest)>>

\* line 450
Dependency(pkg, condition) == [package |-> pkg, condition |-> condition]

\* a mutant of AppendDep: the dependency is put in front
AppendDep_Front(seq, dep) == <<dep>> \o seq

\* lines 454 and 456: list.append
AppendDep(seq, dep) == Append(seq, dep)

\* lines 453-454: optional_dependencies.setdefault(extra, []).append(dep) for
\* each extra, in order
RECURSIVE FileUnderExtras(_, _, _)
FileUnderExtras(opt, extras, dep) ==
    IF extras = <<>> THEN opt
    ELSE LET e == Head(extras)
             old == IF e \in DOMAIN opt THEN opt[e] ELSE <<>>
         IN  FileUnderExtras([x \in DOMAIN opt \cup {e} |->
                                 IF x = e THEN AppendDep(old, dep) ELSE opt[x]],
                             Tail(extras), dep)

NoDependencies == [x \in {} |-> <<>>]

\* a mutant of GetRequiresDist: metadata["Requires-Dist"], a KeyError when absent
GetRequiresDist_NoDefault(md) ==
    IF "Requires-Dist" \notin DOMAIN md THEN [ok |-> FALSE, reqs |-> <<>>]
    ELSE IF IsStr(md["Requires-Dist"])
         THEN [ok |-> TRUE, reqs |-> <<md["Requires-Dist"].items[1]>>]
         ELSE [ok |-> TRUE, reqs |-> md["Requires-Dist"].items]

\* a mutant of GetRequiresDist: a scalar string is iterated character by character
GetRequiresDist_Chars(md) ==
    IF "Requires-Dist" \notin DOMAIN md THEN [ok |-> TRUE, reqs |-> <<>>]
    ELSE IF IsStr(md["Requires-Dist"])
         THEN [ok |-> TRUE,
               reqs |-> [i \in 1..Len(md["Requires-Dist"].items[1]) |->
                            SubSeq(md["Requires-Dist"].items[1], i, i)]]
         ELSE [ok |-> TRUE, reqs |-> md["Requires-Dist"].items]

\* lines 429-431: metadata.get("Requires-Dist", []), a str wrapped in a list
GetRequiresDist(md) ==
    IF "Requires-Dist" \notin DOMAIN md THEN [ok |-> TRUE, reqs |-> <<>>]
    ELSE IF IsStr(md["Requires-Dist"])
         THEN [ok |-> TRUE, reqs |-> <<md["Requires-Dist"].items[1]>>]
         ELSE [ok |-> TRUE, reqs |-> md["Requires-Dist"].items]

\* line 434, 439, 440 for the requirement the loop is at
Req == Strip(requires_dist[ri])
Extras == FindAllExtras(Req)
ReqClean == Strip(SubExtras(Req))

\* The mappings extract_dependencies is run on: no Requires-Dist, one
\* requirement as a scalar, or a sequence of up to MaxReqs requirements all
\* drawn from one of the requirement sets: the core requirements (plain, with a
\* version, with an extra, with another marker, unparsable), or one special
\* requirement in the context of a plain one and one with an extra.
CoreReqs == {"requests",
             "pytest>=6.0; extra == 'test'",
             "coverage>=5.0; python_version >= '3.8'",
             "mypy ;EXTRA==\"dev\"",
             ">=1.0"}

ContextReqs == {"requests", "pytest>=6.0; extra == 'test'"}

SpecialReqs == {" six ",
                "anotherpkg; extra == 'test' and python_version < '3.10'",
                "tox; extra == 'test'; extra == 'dev'",
                "foo; python_version < '3.8' and extra == 'test'",
                "bar; extra == 'a' or extra == 'b'",
                "; extra == 'test'",
                "nl >=1\n<2",
                "  ",
                ""}

ReqSets == {CoreReqs} \cup {ContextReqs \cup {special} : special \in SpecialReqs}

ReqSeqs(pool) == UNION {[1..n -> pool] : n \in 0..MaxReqs}

OtherFields == {EmptyDict, DictSet(EmptyDict, "Name", Str("a"))}

MetadataDocs ==
    OtherFields
    \cup {DictSet(md, "Requires-Dist", Str(r)) :
             md \in OtherFields, r \in CoreReqs \cup SpecialReqs}
    \cup {DictSet(md, "Requires-Dist", List(q)) :
             md \in OtherFields, q \in UNION {ReqSeqs(pool) : pool \in ReqSets}}

\* parse_metadata is not running
ParseIdle ==
    /\ metadata_text = ""
    /\ lines = <<>>
    /\ header_lines = <<>>
    /\ description_lines = <<>>
    /\ in_description = FALSE
    /\ li = 1
    /\ key = <<>>
    /\ result = EmptyDict
    /\ pc = "idle"

DepsInit ==
    /\ metadata \in MetadataDocs
    /\ requires_dist = <<>>
    /\ ri = 1
    /\ dependencies = <<>>
    /\ optional_dependencies = NoDependencies
    /\ dpc = "start"
    /\ ParseIdle
    /\ ReprIdle
    /\ VersionIdle
    /\ NoneSuspended
    /\ BrowserIdle

\* lines 423-431
ExtractStart ==
    /\ dpc = "start"
    /\ IF GetRequiresDist(metadata).ok
       THEN /\ requires_dist' = GetRequiresDist(metadata).reqs
            /\ dpc' = "loop"
       ELSE \* metadata[...] raises KeyError
            /\ dpc' = "raised"
            /\ UNCHANGED requires_dist
    /\ UNCHANGED <<metadata, ri, dependencies, optional_dependencies>>
    /\ UNCHANGED parse_vars
    /\ UNCHANGED other_vars

\* lines 434-436
SkipEmptyReq ==
    /\ dpc = "loop" /\ ri <= Len(requires_dist)
    /\ Req = ""
    /\ ri' = ri + 1
    /\ UNCHANGED <<metadata, requires_dist, dependencies, optional_dependencies, dpc>>
    /\ UNCHANGED parse_vars
    /\ UNCHANGED other_vars

\* a mutant of SkipUnparsableReq: match.groups() is called without the check
\* of line 444, an AttributeError
SkipUnparsableReq_Raises ==
    /\ dpc = "loop" /\ ri <= Len(requires_dist)
    /\ Req # ""
    /\ ~MatchPackage(ReqClean).ok
    /\ dpc' = "raised"
    /\ UNCHANGED <<metadata, requires_dist, ri, dependencies, optional_dependencies>>
    /\ UNCHANGED parse_vars
    /\ UNCHANGED other_vars

\* lines 439-445
SkipUnparsableReq ==
    /\ dpc = "loop" /\ ri <= Len(requires_dist)
    /\ Req # ""
    /\ ~MatchPackage(ReqClean).ok
    /\ ri' = ri + 1
    /\ UNCHANGED <<metadata, requires_dist, dependencies, optional_dependencies, dpc>>
    /\ UNCHANGED parse_vars
    /\ UNCHANGED other_vars

\* lines 447-454
AppendOptional ==
    /\ dpc = "loop" /\ ri <= Len(requires_dist)
    /\ Req # ""
    /\ MatchPackage(ReqClean).ok
    /\ Extras # <<>>
    /\ optional_dependencies' =
           FileUnderExtras(optional_dependencies, Extras,
                           Dependency(MatchPackage(ReqClean).pkg,
                                      Condition(MatchPackage(ReqClean).rest)))
    /\ ri' = ri + 1
    /\ UNCHANGED <<metadata, requires_dist, dependencies, dpc>>
    /\ UNCHANGED parse_vars
    /\ UNCHANGED other_vars

\* lines 447-451, 455-456
AppendRequired ==
    /\ dpc = "loop" /\ ri <= Len(requires_dist)
    /\ Req # ""
    /\ MatchPackage(ReqClean).ok
    /\ Extras = <<>>
    /\ dependencies' =
           AppendDep(dependencies,
                     Dependency(MatchPackage(ReqClean).pkg,
                                Condition(MatchPackage(ReqClean).rest)))
    /\ ri' = ri + 1
    /\ UNCHANGED <<metadata, requires_dist, optional_dependencies, dpc>>
    /\ UNCHANGED parse_vars
    /\ UNCHANGED other_vars

\* line 433: the loop is over
LoopEnd ==
    /\ dpc = "loop" /\ ri > Len(requires_dist)
    /\ dpc' = "return"
    /\ UNCHANGED <<metadata, requires_dist, ri, dependencies, optional_dependencies>>
    /\ UNCHANGED parse_vars
    /\ UNCHANGED other_vars

\* line 458
ExtractReturn ==
    /\ dpc = "return"
    /\ dpc' = "done"
    /\ UNCHANGED <<metadata, requires_dist, ri, dependencies, optional_dependencies>>
    /\ UNCHANGED parse_vars
    /\ UNCHANGED other_vars

DepsNext ==
    \/ ExtractStart
    \/ SkipEmptyReq
    \/ SkipUnparsableReq
    \/ AppendOptional
    \/ AppendRequired
    \/ LoopEnd
    \/ ExtractReturn

SpecDeps == DepsInit /\ [][DepsNext]_vars

-----------------------------------------------------------------------------
(* Dependency.__repr__ *)

\* a mutant of Repr: the repr a dataclass generates when it defines none
Repr_Dataclass(d) ==
    "Dependency(package='" \o d.package \o "', condition="
        \o (IF d.condition = <<>> THEN "None" ELSE "'" \o d.condition[1] \o "'") \o ")"

\* line 24: self.package + ("" if self.condition is None else f" {self.condition}")
Repr(d) == d.package \o (IF d.condition = <<>> THEN "" ELSE " " \o d.condition[1])

\* the dataclass defines no __str__: str() is object.__str__, which calls repr()
StrOf(d) == Repr(d)

\* the Dependencies that are rendered: those of the tests, those
\* extract_dependencies builds, and degenerate ones
ReprPackages == {"requests", "pytest", "coverage", "six", "a", "my-pkg_1.0", "x y", ""}

ReprConditions == {<<>>, <<">=2.25.0">>, <<">=6.0">>,
                   <<">=5.0; python_version >= '3.8'">>,
                   <<"and python_version < '3.10'">>, <<" ">>, <<"">>}

ReprInit ==
    /\ self \in {Dependency(p, c) : p \in ReprPackages, c \in ReprConditions}
    /\ rendered = ""
    /\ rpc = "start"
    /\ ParseIdle
    /\ DepsIdle
    /\ VersionIdle
    /\ NoneSuspended
    /\ BrowserIdle

\* repr(dep)
CallRepr ==
    /\ rpc = "start"
    /\ rendered' = Repr(self)
    /\ rpc' = "repr"
    /\ UNCHANGED <<self, parse_vars, deps_vars, version_vars, suspended, browser_vars>>

\* str(dep)
CallStr ==
    /\ rpc = "start"
    /\ rendered' = StrOf(self)
    /\ rpc' = "str"
    /\ UNCHANGED <<self, parse_vars, deps_vars, version_vars, suspended, browser_vars>>

ReprNext ==
    \/ CallRepr
    \/ CallStr

SpecRepr == ReprInit /\ [][ReprNext]_vars

-----------------------------------------------------------------------------
(* extract_required_python_version *)

\* s.startswith(prefix)
HasPrefix(s, prefix) == Len(s) >= Len(prefix) /\ SubSeq(s, 1, Len(prefix)) = prefix

PythonPrefix == "Programming Language :: Python ::"

\* s.split("::")[-1]: the separators are found from the left, without overlap;
\* i is the scanning position, start the position after the last separator
RECURSIVE LastPartFrom(_, _, _)
LastPartFrom(s, i, start) ==
    IF i >= Len(s) THEN From(s, start)
    ELSE IF SubSeq(s, i, i + 1) = "::" THEN LastPartFrom(s, i + 2, i + 2)
    ELSE LastPartFrom(s, i + 1, start)

LastPart(s) == LastPartFrom(s, 1, 1)

\* lines 89 and 100: classifier.split("::")[-1].strip()
VersionOf(classifier) == Strip(LastPart(classifier))

\* "." in version
HasDot(v) == FindClass(v, 1, {"."}) <= Len(v)

\* lines 88-90: the classifier adds a specific version
IsSpecific(classifier) ==
    /\ HasPrefix(classifier, PythonPrefix)
    /\ VersionOf(classifier) # ""
    /\ VersionOf(classifier) # "Implementation"
    /\ HasDot(VersionOf(classifier))

\* lines 99-101: the classifier gives the generic version
IsGeneric(classifier) ==
    /\ HasPrefix(classifier, PythonPrefix)
    /\ VersionOf(classifier) # ""
    /\ VersionOf(classifier) # "Implementation"

\* lines 81-83: metadata.get("Classifier", []), a str wrapped in a list
GetClassifiers(md) ==
    IF "Classifier" \notin DOMAIN md THEN <<>>
    ELSE IF IsStr(md["Classifier"]) THEN <<md["Classifier"].items[1]>>
    ELSE md["Classifier"].items

\* The mappings extract_required_python_version is run on: no Classifier, one
\* classifier as a scalar, or a sequence of up to MaxClassifiers classifiers all
\* drawn from one of the classifier sets: the core classifiers, or one special
\* classifier in the context of a generic and a specific version.
CoreClassifiers == {"Development Status :: 5 - Production/Stable",
                    "Programming Language :: Python :: 3",
                    "Programming Language :: Python :: 3.8",
                    "Programming Language :: Python :: 3.9",
                    "Programming Language :: Python :: Implementation :: CPython"}

ContextClassifiers == {"Programming Language :: Python :: 3",
                       "Programming Language :: Python :: 3.8"}

SpecialClassifiers == {"Programming Language :: Python :: 3 :: Only",
                       "Programming Language :: Python :: Implementation",
                       "Programming Language :: Python",
                       "Programming Language :: Python ::",
                       "Programming Language :: Python ::2.7",
                       " Programming Language :: Python :: 3.8",
                       "Programming Language :: Python :::3",
                       "License :: OSI Approved :: MIT License"}

ClassifierSets ==
    {CoreClassifiers} \cup {ContextClassifiers \cup {special} : special \in SpecialClassifiers}

ClassifierSeqs(pool) == UNION {[1..n -> pool] : n \in 0..MaxClassifiers}

OtherVersionFields == {EmptyDict, DictSet(EmptyDict, "Requires-Python", Str(">=3.7"))}

ClassifierDocs ==
    OtherVersionFields
    \cup {DictSet(md, "Classifier", Str(c)) :
             md \in OtherVersionFields, c \in CoreClassifiers \cup SpecialClassifiers}
    \cup {DictSet(md, "Classifier", List(q)) :
             md \in OtherVersionFields, q \in UNION {ClassifierSeqs(pool) : pool \in ClassifierSets}}

VersionInit ==
    /\ classifier_metadata \in ClassifierDocs
    /\ classifiers = <<>>
    /\ specific_versions = <<>>
    /\ ci = 1
    /\ version = ""
    /\ vpc = "start"
    /\ ParseIdle
    /\ DepsIdle
    /\ ReprIdle
    /\ NoneSuspended
    /\ BrowserIdle

\* lines 81-86
VersionStart ==
    /\ vpc = "start"
    /\ classifiers' = GetClassifiers(classifier_metadata)
    /\ specific_versions' = <<>>
    /\ ci' = 1
    /\ vpc' = "specific"
    /\ UNCHANGED <<classifier_metadata, version>>
    /\ UNCHANGED <<parse_vars, deps_vars, repr_vars, suspended, browser_vars>>

\* lines 87-91, one iteration: a specific version is appended
SpecificAppend ==
    /\ vpc = "specific" /\ ci <= Len(classifiers)
    /\ IsSpecific(classifiers[ci])
    /\ specific_versions' = Append(specific_versions, VersionOf(classifiers[ci]))
    /\ ci' = ci + 1
    /\ UNCHANGED <<classifier_metadata, classifiers, version, vpc>>
    /\ UNCHANGED <<parse_vars, deps_vars, repr_vars, suspended, browser_vars>>

\* lines 87-90, one iteration: no specific version
SpecificSkip ==
    /\ vpc = "specific" /\ ci <= Len(classifiers)
    /\ ~IsSpecific(classifiers[ci])
    /\ ci' = ci + 1
    /\ UNCHANGED <<classifier_metadata, classifiers, specific_versions, version, vpc>>
    /\ UNCHANGED <<parse_vars, deps_vars, repr_vars, suspended, browser_vars>>

\* lines 94-95: the first specific version is returned
ReturnSpecific ==
    /\ vpc = "specific" /\ ci > Len(classifiers)
    /\ specific_versions # <<>>
    /\ version' = specific_versions[1]
    /\ vpc' = "done"
    /\ UNCHANGED <<classifier_metadata, classifiers, specific_versions, ci>>
    /\ UNCHANGED <<parse_vars, deps_vars, repr_vars, suspended, browser_vars>>

\* lines 94, 98: no specific version, the second loop starts
GenericStart ==
    /\ vpc = "specific" /\ ci > Len(classifiers)
    /\ specific_versions = <<>>
    /\ ci' = 1
    /\ vpc' = "generic"
    /\ UNCHANGED <<classifier_metadata, classifiers, specific_versions, version>>
    /\ UNCHANGED <<parse_vars, deps_vars, repr_vars, suspended, browser_vars>>

\* lines 98-102, one iteration: the generic version is returned
ReturnGeneric ==
    /\ vpc = "generic" /\ ci <= Len(classifiers)
    /\ IsGeneric(classifiers[ci])
    /\ version' = VersionOf(classifiers[ci])
    /\ vpc' = "done"
    /\ UNCHANGED <<classifier_metadata, classifiers, specific_versions, ci>>
    /\ UNCHANGED <<parse_vars, deps_vars, repr_vars, suspended, browser_vars>>

\* lines 98-101, one iteration: no version
GenericSkip ==
    /\ vpc = "generic" /\ ci <= Len(classifiers)
    /\ ~IsGeneric(classifiers[ci])
    /\ ci' = ci + 1
    /\ UNCHANGED <<classifier_metadata, classifiers, specific_versions, version, vpc>>
    /\ UNCHANGED <<parse_vars, deps_vars, repr_vars, suspended, browser_vars>>

\* line 104: return ""
ReturnEmpty ==
    /\ vpc = "generic" /\ ci > Len(classifiers)
    /\ version' = ""
    /\ vpc' = "done"
    /\ UNCHANGED <<classifier_metadata, classifiers, specific_versions, ci>>
    /\ UNCHANGED <<parse_vars, deps_vars, repr_vars, suspended, browser_vars>>

VersionNext ==
    \/ VersionStart
    \/ SpecificAppend
    \/ SpecificSkip
    \/ ReturnSpecific
    \/ GenericStart
    \/ ReturnGeneric
    \/ GenericSkip
    \/ ReturnEmpty

SpecVersion == VersionInit /\ [][VersionNext]_vars

-----------------------------------------------------------------------------
(* Concurrent calls of parse_metadata and extract_dependencies *)

\* Both functions keep all their state in locals (metadata_parser.py lines
\* 19-36, core.py lines 423-431) and in the objects they allocate; there is no
\* module-level or instance state.  A thread that is not running keeps its
\* call's locals; a thread switch puts the running call's locals aside and
\* takes up those of the other call.

\* the locals of the running call
Current ==
    [metadata_text |-> metadata_text, lines |-> lines, header_lines |-> header_lines,
     description_lines |-> description_lines, in_description |-> in_description,
     li |-> li, key |-> key, result |-> result, pc |-> pc,
     metadata |-> metadata, requires_dist |-> requires_dist, ri |-> ri,
     dependencies |-> dependencies, optional_dependencies |-> optional_dependencies,
     dpc |-> dpc]

\* the call c is the running one
Running(c) ==
    /\ metadata_text = c.metadata_text
    /\ lines = c.lines
    /\ header_lines = c.header_lines
    /\ description_lines = c.description_lines
    /\ in_description = c.in_description
    /\ li = c.li
    /\ key = c.key
    /\ result = c.result
    /\ pc = c.pc
    /\ metadata = c.metadata
    /\ requires_dist = c.requires_dist
    /\ ri = c.ri
    /\ dependencies = c.dependencies
    /\ optional_dependencies = c.optional_dependencies
    /\ dpc = c.dpc

\* a call of parse_metadata(text) that has just started
ParseCall(text) ==
    [metadata_text |-> text, lines |-> TextLines(text), header_lines |-> <<>>,
     description_lines |-> <<>>, in_description |-> FALSE,
     li |-> 1, key |-> <<>>, result |-> EmptyDict, pc |-> "partition",
     metadata |-> EmptyDict, requires_dist |-> <<>>, ri |-> 1,
     dependencies |-> <<>>, optional_dependencies |-> NoDependencies,
     dpc |-> "idle"]

\* a call of extract_dependencies(md) that has just started
DepsCall(md) ==
    [metadata_text |-> "", lines |-> <<>>, header_lines |-> <<>>,
     description_lines |-> <<>>, in_description |-> FALSE,
     li |-> 1, key |-> <<>>, result |-> EmptyDict, pc |-> "idle",
     metadata |-> md, requires_dist |-> <<>>, ri |-> 1,
     dependencies |-> <<>>, optional_dependencies |-> NoDependencies,
     dpc |-> "start"]

\* the calls that run concurrently, two at a time (the same one twice too)
ConcTexts == {"Name: a\n x\njunk\nClassifier: c\n\nbody\nmore",
              "Name: a\nName: b",
              ""}

ConcDocs == {EmptyDict,
             DictSet(EmptyDict, "Requires-Dist",
                     List(<<"requests", "pytest>=6.0; extra == 'test'", "", ">=1.0">>)),
             DictSet(EmptyDict, "Requires-Dist",
                     Str("coverage>=5.0; python_version >= '3.8'"))}

ConcCalls == {ParseCall(t) : t \in ConcTexts} \cup {DepsCall(md) : md \in ConcDocs}

ConcInit ==
    /\ \E c \in ConcCalls : Running(c)
    /\ suspended \in {<<c>> : c \in ConcCalls}
    /\ ReprIdle
    /\ VersionIdle
    /\ BrowserIdle

\* a mutant of Switch: result is a module-level mapping that the calls share,
\* it stays as the thread that ran last left it
Switch_SharedResult ==
    /\ suspended # <<>>
    /\ metadata_text' = suspended[1].metadata_text
    /\ lines' = suspended[1].lines
    /\ header_lines' = suspended[1].header_lines
    /\ description_lines' = suspended[1].description_lines
    /\ in_description' = suspended[1].in_description
    /\ li' = suspended[1].li
    /\ key' = suspended[1].key
    /\ result' = result
    /\ pc' = suspended[1].pc
    /\ metadata' = suspended[1].metadata
    /\ requires_dist' = suspended[1].requires_dist
    /\ ri' = suspended[1].ri
    /\ dependencies' = suspended[1].dependencies
    /\ optional_dependencies' = suspended[1].optional_dependencies
    /\ dpc' = suspended[1].dpc
    /\ suspended' = <<Current>>
    /\ UNCHANGED <<repr_vars, version_vars, browser_vars>>

\* a thread switch: every variable of the functions is a local of its call
Switch ==
    /\ suspended # <<>>
    /\ metadata_text' = suspended[1].metadata_text
    /\ lines' = suspended[1].lines
    /\ header_lines' = suspended[1].header_lines
    /\ description_lines' = suspended[1].description_lines
    /\ in_description' = suspended[1].in_description
    /\ li' = suspended[1].li
    /\ key' = suspended[1].key
    /\ result' = suspended[1].result
    /\ pc' = suspended[1].pc
    /\ metadata' = suspended[1].metadata
    /\ requires_dist' = suspended[1].requires_dist
    /\ ri' = suspended[1].ri
    /\ dependencies' = suspended[1].dependencies
    /\ optional_dependencies' = suspended[1].optional_dependencies
    /\ dpc' = suspended[1].dpc
    /\ suspended' = <<Current>>
    /\ UNCHANGED <<repr_vars, version_vars, browser_vars>>

ConcNext ==
    \/ ParseNext
    \/ DepsNext
    \/ Switch

SpecConc == ConcInit /\ [][ConcNext]_vars

-----------------------------------------------------------------------------
(* PyPIBrowser.get_package_tags *)

\* An Optional value is a sequence of length 0 (None) or 1.  A dict with str
\* keys is a function; a value a JSON document carries that the code only
\* copies is written as a str (a number by its digits, an object by its text).
None == <<>>
Some(x) == <<x>>

\* d.get(k, default)
Get(d, k, default) == IF k \in DOMAIN d THEN d[k] ELSE default

\* d.update(e) on a copy of d
Update(d, e) == [x \in DOMAIN d \cup DOMAIN e |-> IF x \in DOMAIN e THEN e[x] ELSE d[x]]

\* PackageTag(tag=..., wheels=...)
PackageTag(tag, wheels) == [tag |-> tag, wheels |-> wheels]

\* A page of pypi-browser.org as the HTML parser gives it: its .card elements
\* in order, each with the text of its .card-header (or none) and the <a>
\* elements of its .list-group (or none), each <a> with the text of its first
\* <span> (or none) and its href attribute (or none).
Anchor(span, href) == [span |-> span, href |-> href]
Card(header, list_group) == [header |-> header, list_group |-> list_group]

\* lines 207-216: the wheels of the <a> elements from position i on, appended
\* to acc; a.attributes["href"] raises KeyError on an <a> without href
RECURSIVE ScrapeWheels(_, _, _)
ScrapeWheels(anchors, i, acc) ==
    IF i > Len(anchors) THEN [ok |-> TRUE, wheels |-> acc]
    ELSE IF anchors[i].span = None THEN ScrapeWheels(anchors, i + 1, acc)
    ELSE IF anchors[i].href = None THEN [ok |-> FALSE, wheels |-> acc]
    ELSE ScrapeWheels(anchors, i + 1,
             Append(acc, [name |-> Strip(anchors[i].span[1]),
                          browser_url |-> anchors[i].href[1]]))

\* lines 197-219: the tags of the cards from position i on, appended to acc
RECURSIVE ScrapeCards(_, _, _)
ScrapeCards(cards, i, acc) ==
    IF i > Len(cards) THEN [ok |-> TRUE, tags |-> acc]
    ELSE IF cards[i].header = None THEN ScrapeCards(cards, i + 1, acc)
    ELSE LET tag == Strip(cards[i].header[1])
             scraped == IF cards[i].list_group = None
                        THEN [ok |-> TRUE, wheels |-> <<>>]
                        ELSE ScrapeWheels(cards[i].list_group[1], 1, <<>>)
         IN  IF ~scraped.ok THEN [ok |-> FALSE, tags |-> acc]
             ELSE IF scraped.wheels # <<>>
             THEN ScrapeCards(cards, i + 1, Append(acc, PackageTag(tag, scraped.wheels)))
             ELSE ScrapeCards(cards, i + 1, acc)

\* lines 190-221, content being what the fetch returned (None when it failed or
\* the body was empty)
PypiBrowserTags(content) ==
    IF content = None THEN [ok |-> TRUE, tags |-> <<>>]
    ELSE ScrapeCards(content[1], 1, <<>>)

\* What pypi.org returns for the JSON URL: nothing (the fetch failed), a text
\* that is no JSON, or a JSON value: an object with its members, an array, null.
NoResponse == [kind |-> "none"]
InvalidJson == [kind |-> "invalid"]
JsonArray == [kind |-> "array"]
JsonNull == [kind |-> "null"]
JsonObject(members) == [kind |-> "object", members |-> members]
EmptyObject == JsonObject([x \in {} |-> JsonNull])

\* lines 228-234
PypiJsonData(response) ==
    IF response.kind \in {"none", "invalid"} THEN EmptyObject ELSE response

\* lines 254-258: the first file of release_info whose filename is wheel_name
RECURSIVE FindFile(_, _, _)
FindFile(release_info, wheel_name, i) ==
    IF i > Len(release_info) THEN None
    ELSE IF "filename" \in DOMAIN release_info[i] /\ release_info[i]["filename"] = wheel_name
    THEN Some(release_info[i])
    ELSE FindFile(release_info, wheel_name, i + 1)

\* lines 251-276: the enriched record of one scraped wheel (a file that was
\* found has a filename, so it is no empty dict at line 267)
EnrichWheel(browser_wheel, release_info, name, tag) ==
    LET found == FindFile(release_info, browser_wheel["name"], 1)
        enriched_wheel == [x \in {"name", "browser_url"} |-> browser_wheel[x]]
    IN  IF found # None
        THEN Update(enriched_wheel,
                    [x \in {"pypi_url", "size", "upload_time", "python_version",
                            "packagetype", "hashes", "project_url"} |->
                        CASE x = "pypi_url" -> Get(found[1], "url", "")
                          [] x = "size" -> Get(found[1], "size", "0")
                          [] x = "upload_time" -> Get(found[1], "upload_time", "")
                          [] x = "python_version" -> Get(found[1], "python_version", "")
                          [] x = "packagetype" -> Get(found[1], "packagetype", "")
                          [] x = "hashes" -> Get(found[1], "digests", "{}")
                          [] OTHER -> "https://pypi.org/project/" \o name \o "/"
                                          \o tag \o "/"])
        ELSE enriched_wheel

\* a mutant of EnrichTag: a wheel that pypi.org does not list is left out
EnrichTag_OnlyListed(browser_tag, release_info, name) ==
    PackageTag(browser_tag.tag,
               SelectSeq([j \in 1..Len(browser_tag.wheels) |->
                             EnrichWheel(browser_tag.wheels[j], release_info, name,
                                         browser_tag.tag)],
                         LAMBDA w : "pypi_url" \in DOMAIN w))

\* lines 245-280: the enriched tag of one scraped tag
EnrichTag(browser_tag, release_info, name) ==
    PackageTag(browser_tag.tag,
               [j \in 1..Len(browser_tag.wheels) |->
                   EnrichWheel(browser_tag.wheels[j], release_info, name, browser_tag.tag)])

\* lines 239-282; pypi_data.get raises AttributeError when the JSON value is no
\* object, and releases.get when a tag is looked up in a value that is none
EnrichTagsWithPypiData(tags, data, name) ==
    IF data.kind # "object" THEN [ok |-> FALSE, tags |-> <<>>]
    ELSE LET releases == Get(data.members, "releases", EmptyObject)
         IN  IF tags # <<>> /\ releases.kind # "object"
             THEN [ok |-> FALSE, tags |-> <<>>]
             ELSE [ok |-> TRUE,
                   tags |-> [i \in 1..Len(tags) |->
                               EnrichTag(tags[i],
                                         Get(releases.members, tags[i].tag, <<>>),
                                         name)]]

\* The package pages get_package_tags is run on: no content, or up to MaxCards
\* cards drawn from: two cards with wheels (the header and a wheel name of one
\* padded with whitespace), and cards without a header, without a list, with
\* links that hold no <span>, and with a link that has a <span> and no href.
WheelLink(name) == Anchor(Some(name), Some("/package/p/" \o Strip(name)))

Cards == {Card(Some(" 1.0 "), Some(<<WheelLink("p-1-a.whl"), WheelLink(" p-1-b.whl ")>>)),
          Card(Some("2.0"), Some(<<Anchor(None, Some("/up")), WheelLink("p-2-a.whl")>>)),
          Card(None, Some(<<WheelLink("p-1-a.whl")>>)),
          Card(Some("3.0"), None),
          Card(Some("4.0"), Some(<<Anchor(None, Some("/up"))>>)),
          Card(Some("5.0"), Some(<<Anchor(Some("p-5-a.whl"), None)>>))}

PackagePages == {None} \cup {Some(cs) : cs \in UNION {[1..n -> Cards] : n \in 0..MaxCards}}

\* a file of a pypi.org release
File(filename, url) ==
    [x \in {"filename", "url", "size", "digests"} |->
        CASE x = "filename" -> filename [] x = "url" -> url [] x = "size" -> "1024"
          [] OTHER -> "{\"sha256\": \"ab\"}"]

\* The pypi.org responses: none, no JSON, JSON that is no object, an object
\* without releases, with releases that is null, with no release, with a
\* release of another version, and with the release 1.0: one file that is no
\* wheel of the page, then two files named as the page's wheels are (one of
\* them twice, and one without a url).
Releases(rs) == JsonObject([x \in {"releases", "info"} |->
                              IF x = "releases" THEN rs ELSE EmptyObject])

PypiResponses ==
    {NoResponse, InvalidJson, JsonArray, JsonNull, EmptyObject,
     Releases(JsonNull),
     Releases(EmptyObject),
     Releases(JsonObject([x \in {"0.9"} |-> <<File("p-1-a.whl", "https://f/0.9/a")>>])),
     Releases(JsonObject([x \in {"1.0", "2.0"} |->
         IF x = "1.0"
         THEN <<File("p-1.tar.gz", "https://f/1/t"),
                File("p-1-b.whl", "https://f/1/b"),
                File("p-1-b.whl", "https://f/1/b2"),
                [y \in {"filename"} |-> "p-1-a.whl"]>>
         ELSE <<>>]))}

\* What the fetches of a command run return: the package page has no content,
\* no card, a card with a wheel, a card with a wheel whose name has no hyphen,
\* or a card whose link has no href; pypi.org gives nothing, JSON that is no
\* object, or the release of the wheel; the METADATA page has no content, no
\* <pre> element, or a document with a key, a continuation, an ignored line
\* and a description; the JSON of the package gives nothing, an info that is
\* null, or an info object.
CommandPackagePages ==
    {None, Some(<<>>),
     Some(<<Card(Some(" 1.0 "), Some(<<WheelLink("p-1-a.whl"), WheelLink(" p-1-b.whl ")>>))>>),
     Some(<<Card(Some("2.0"), Some(<<WheelLink("nohyphen")>>))>>),
     Some(<<Card(Some("5.0"), Some(<<Anchor(Some("p-5-a.whl"), None)>>))>>)}

CommandPypiResponses ==
    {NoResponse, JsonArray,
     Releases(JsonObject([x \in {"1.0"} |-> <<File("p-1-a.whl", "https://f/1/a")>>]))}

PackageNames == {"p"}

TagsInit ==
    /\ package_name \in PackageNames
    /\ package_page = None
    /\ pypi_response = NoResponse
    /\ browser_tags = <<>>
    /\ pypi_data = NoResponse
    /\ enriched_tags = <<>>
    /\ tpc = "start"
    /\ ParseIdle
    /\ DepsIdle
    /\ ReprIdle
    /\ VersionIdle
    /\ NoneSuspended
    /\ MetadataIdle
    /\ FromIdle
    /\ CommandIdle

\* lines 175, 187-188: the package page is fetched
FetchPackagePage ==
    /\ tpc = "start"
    /\ package_page' \in (IF command = "" THEN PackagePages ELSE CommandPackagePages)
    /\ tpc' = "scrape"
    /\ UNCHANGED <<package_name, pypi_response, browser_tags, pypi_data, enriched_tags>>
    /\ UNCHANGED <<parse_vars, deps_vars, repr_vars, version_vars, suspended, metadata_vars,
                   from_vars, command_vars>>

\* lines 190-221: the tags are scraped from the page
ScrapeTags ==
    /\ tpc = "scrape"
    /\ LET scraped == PypiBrowserTags(package_page)
       IN  IF scraped.ok
           THEN browser_tags' = scraped.tags /\ tpc' = "fetch_json"
           ELSE \* a.attributes["href"] raises KeyError
                browser_tags' = browser_tags /\ tpc' = "raised"
    /\ UNCHANGED <<package_name, package_page, pypi_response, pypi_data, enriched_tags>>
    /\ UNCHANGED <<parse_vars, deps_vars, repr_vars, version_vars, suspended, metadata_vars,
                   from_vars, command_vars>>

\* lines 178, 225-226: the JSON of pypi.org is fetched
FetchPypiJson ==
    /\ tpc = "fetch_json"
    /\ pypi_response' \in (IF command = "" THEN PypiResponses ELSE CommandPypiResponses)
    /\ tpc' = "load_json"
    /\ UNCHANGED <<package_name, package_page, browser_tags, pypi_data, enriched_tags>>
    /\ UNCHANGED <<parse_vars, deps_vars, repr_vars, version_vars, suspended, metadata_vars,
                   from_vars, command_vars>>

\* lines 228-234
LoadPypiJson ==
    /\ tpc = "load_json"
    /\ pypi_data' = PypiJsonData(pypi_response)
    /\ tpc' = "enrich"
    /\ UNCHANGED <<package_name, package_page, pypi_response, browser_tags, enriched_tags>>
    /\ UNCHANGED <<parse_vars, deps_vars, repr_vars, version_vars, suspended, metadata_vars,
                   from_vars, command_vars>>

\* lines 181, 239-282
EnrichTags ==
    /\ tpc = "enrich"
    /\ LET enriched == EnrichTagsWithPypiData(browser_tags, pypi_data, package_name)
       IN  IF enriched.ok
           THEN enriched_tags' = enriched.tags /\ tpc' = "return"
           ELSE \* AttributeError
                enriched_tags' = enriched_tags /\ tpc' = "raised"
    /\ UNCHANGED <<package_name, package_page, pypi_response, browser_tags, pypi_data>>
    /\ UNCHANGED <<parse_vars, deps_vars, repr_vars, version_vars, suspended, metadata_vars,
                   from_vars, command_vars>>

\* line 183
TagsReturn ==
    /\ tpc = "return"
    /\ tpc' = "done"
    /\ UNCHANGED <<package_name, package_page, pypi_response, browser_tags, pypi_data,
                   enriched_tags>>
    /\ UNCHANGED <<parse_vars, deps_vars, repr_vars, version_vars, suspended, metadata_vars,
                   from_vars, command_vars>>

TagsNext ==
    \/ FetchPackagePage
    \/ ScrapeTags
    \/ FetchPypiJson
    \/ LoadPypiJson
    \/ EnrichTags
    \/ TagsReturn

SpecTags == TagsInit /\ [][TagsNext]_vars

-----------------------------------------------------------------------------
(* PyPIBrowser.get_package_metadata *)

\* s.split(sep) for a separator of one character
RECURSIVE Split(_, _)
Split(s, sep) ==
    LET i == FindClass(s, 1, {sep})
    IN  IF i > Len(s) THEN <<s>> ELSE <<SubSeq(s, 1, i - 1)>> \o Split(From(s, i + 1), sep)

\* lines 358-362: the package name the JSON is fetched for, None when the last
\* segment of the URL has no hyphen
JsonPackageName(url) ==
    LET wheel_name == Split(url, "/")[Len(Split(url, "/"))]
        parts == Split(wheel_name, "-")
    IN  IF Len(parts) >= 2 THEN Some(parts[1]) ELSE None

\* A value of the JSON info object as the mapping holds it: a str, a list of
\* str (Str, List), null (None in Python) or an object (a dict, written as its
\* keys and values in turn).
NoneValue == [kind |-> "none", items |-> <<>>]
DictValue(pairs) == [kind |-> "dict", items |-> pairs]

\* bool(v) for such a value
Truthy(v) ==
    CASE v.kind = "none" -> FALSE
      [] v.kind = "str" -> v.items[1] # ""
      [] OTHER -> v.items # <<>>

\* lines 379-404: the METADATA field each member of info is stored under
MetadataField(member) ==
    CASE member = "name" -> "Name"
      [] member = "version" -> "Version"
      [] member = "summary" -> "Summary"
      [] member = "description" -> "Description"
      [] member = "author" -> "Author"
      [] member = "author_email" -> "Author-email"
      [] member = "license" -> "License"
      [] member = "home_page" -> "Home-page"
      [] member = "project_urls" -> "Project-URL"
      [] member = "classifiers" -> "Classifier"
      [] member = "requires_dist" -> "Requires-Dist"
      [] OTHER -> ""

InfoMembers == {"name", "version", "summary", "description", "author", "author_email",
                "license", "home_page", "project_urls", "classifiers", "requires_dist"}

\* lines 376-406: the mapping built from the info object
ConvertInfo(info) ==
    LET taken == {m \in DOMAIN info \cap InfoMembers :
                     m = "requires_dist" => Truthy(info[m])}
    IN  [f \in {MetadataField(m) : m \in taken} |->
            info[CHOOSE m \in taken : MetadataField(m) = f]]

\* lines 368-409 for the fetched response: data.get raises AttributeError when
\* the JSON value is no object, "name" in info raises TypeError when info is null
PypiJsonMetadata(response) ==
    IF response.kind \in {"none", "invalid"} THEN [ok |-> TRUE, metadata |-> EmptyDict]
    ELSE IF response.kind # "object" THEN [ok |-> FALSE, metadata |-> EmptyDict]
    ELSE LET info == Get(response.members, "info", EmptyObject)
         IN  IF info.kind # "object" THEN [ok |-> FALSE, metadata |-> EmptyDict]
             ELSE [ok |-> TRUE, metadata |-> ConvertInfo(info.members)]

\* a mutant of MergeMetadata: the pypi.org value wins
MergeMetadata_PypiWins(pypi, browser) == Update(browser, pypi)

\* line 332: {**pypi_metadata, **browser_metadata}
MergeMetadata(pypi, browser) == Update(pypi, browser)

\* The METADATA pages get_package_metadata is run on: no content, a page
\* without a <pre> element, or a <pre> element with a document of up to
\* MaxPageLines lines.
PageLines == {"Name: a", "Classifier: c", " x", "", "junk"}

MetadataPages ==
    {None, Some([pre |-> None])}
    \cup {Some([pre |-> Some(Join(ls, "\n"))]) :
             ls \in UNION {[1..n -> PageLines] : n \in 0..MaxPageLines}}

\* The pypi.org responses: none, no JSON, JSON that is no object, an object
\* without info, with info that is null, and with an info object: empty, with
\* members that are null, with every member, with empty and null lists.
Info(members) == JsonObject([x \in {"info"} |-> members])

InfoObjects ==
    {[m \in {} |-> NoneValue],
     [m \in {"name", "summary"} |-> IF m = "name" THEN Str("b") ELSE NoneValue],
     [m \in InfoMembers |->
         CASE m = "name" -> Str("b")
           [] m = "version" -> Str("1")
           [] m = "author" -> Str("")
           [] m = "license" -> NoneValue
           [] m = "home_page" -> NoneValue
           [] m = "project_urls" -> DictValue(<<"Homepage", "https://h">>)
           [] m = "classifiers" -> List(<<"c1", "c2">>)
           [] m = "requires_dist" -> List(<<"r; extra == 'e'">>)
           [] OTHER -> Str(m)],
     [m \in {"requires_dist", "classifiers"} |->
         IF m = "requires_dist" THEN NoneValue ELSE List(<<>>)],
     [m \in {"requires_dist", "project_urls", "other"} |->
         IF m = "requires_dist" THEN List(<<>>) ELSE NoneValue]}

JsonResponses ==
    {NoResponse, InvalidJson, JsonArray, EmptyObject, Info(JsonNull)}
    \cup {Info(JsonObject(members)) : members \in InfoObjects}

\* What the fetches of get_package_metadata return in a command run (see
\* CommandPackagePages)
CommandMetadataPages ==
    {None, Some([pre |-> None]),
     Some([pre |-> Some("Name: a\n x\njunk\nClassifier: c\n\nd")])}

CommandJsonResponses ==
    {NoResponse, Info(JsonNull),
     Info(JsonObject([m \in {"name", "requires_dist"} |->
                         IF m = "name" THEN Str("b") ELSE List(<<"r">>)]))}

WheelUrls == {"/package/p/p-1-a.whl", "/package/p/p-1-a.whl/", "/package/p/nohyphen"}

MetadataInit ==
    /\ wheel_url \in WheelUrls
    /\ metadata_page = None
    /\ json_response = NoResponse
    /\ browser_metadata = EmptyDict
    /\ pypi_metadata = EmptyDict
    /\ merged_metadata = EmptyDict
    /\ mpc = "start"
    /\ ParseIdle
    /\ DepsIdle
    /\ ReprIdle
    /\ VersionIdle
    /\ NoneSuspended
    /\ TagsIdle
    /\ FromIdle
    /\ CommandIdle

\* lines 344-350: the page has content and a <pre> element
HasPre(page) == IF page = None THEN FALSE ELSE page[1].pre # None

\* lines 326, 339-343: the METADATA page of the wheel is fetched
FetchMetadataPage ==
    /\ mpc = "start"
    /\ metadata_page' \in (IF command = "" THEN MetadataPages ELSE CommandMetadataPages)
    /\ mpc' = "page"
    /\ UNCHANGED <<wheel_url, json_response, browser_metadata, pypi_metadata, merged_metadata>>
    /\ UNCHANGED <<parse_vars, deps_vars, repr_vars, version_vars, suspended, tags_vars,
                   from_vars, command_vars>>

\* lines 344-350: no content, or no <pre> element
NoBrowserMetadata ==
    /\ mpc = "page"
    /\ ~HasPre(metadata_page)
    /\ browser_metadata' = EmptyDict
    /\ mpc' = "json_url"
    /\ UNCHANGED <<wheel_url, metadata_page, json_response, pypi_metadata, merged_metadata>>
    /\ UNCHANGED <<parse_vars, deps_vars, repr_vars, version_vars, suspended, tags_vars,
                   from_vars, command_vars>>

\* lines 352-353: parse_metadata is called on the text of the <pre> element
\* (lines 19-23 of parse_metadata)
CallParseMetadata ==
    /\ mpc = "page"
    /\ HasPre(metadata_page)
    /\ metadata_text' = metadata_page[1].pre[1]
    /\ lines' = TextLines(metadata_page[1].pre[1])
    /\ header_lines' = <<>>
    /\ description_lines' = <<>>
    /\ in_description' = FALSE
    /\ li' = 1
    /\ key' = <<>>
    /\ result' = EmptyDict
    /\ pc' = "partition"
    /\ mpc' = "parsing"
    /\ UNCHANGED <<wheel_url, metadata_page, json_response, browser_metadata, pypi_metadata,
                   merged_metadata>>
    /\ UNCHANGED <<deps_vars, repr_vars, version_vars, suspended, tags_vars,
                   from_vars, command_vars>>

\* line 353: parse_metadata has returned
ParseMetadataReturns ==
    /\ mpc = "parsing" /\ pc = "done"
    /\ browser_metadata' = result
    /\ mpc' = "json_url"
    /\ UNCHANGED <<wheel_url, metadata_page, json_response, pypi_metadata, merged_metadata>>
    /\ UNCHANGED <<parse_vars, deps_vars, repr_vars, version_vars, suspended, tags_vars,
                   from_vars, command_vars>>

\* lines 329, 358-360, 411: the wheel name has no hyphen, nothing is fetched
NoJsonUrl ==
    /\ mpc = "json_url"
    /\ JsonPackageName(wheel_url) = None
    /\ pypi_metadata' = EmptyDict
    /\ mpc' = "merge"
    /\ UNCHANGED <<wheel_url, metadata_page, json_response, browser_metadata, merged_metadata>>
    /\ UNCHANGED <<parse_vars, deps_vars, repr_vars, version_vars, suspended, tags_vars,
                   from_vars, command_vars>>

\* lines 329, 358-366: the JSON of the package is fetched
FetchMetadataJson ==
    /\ mpc = "json_url"
    /\ JsonPackageName(wheel_url) # None
    /\ json_response' \in (IF command = "" THEN JsonResponses ELSE CommandJsonResponses)
    /\ mpc' = "json"
    /\ UNCHANGED <<wheel_url, metadata_page, browser_metadata, pypi_metadata, merged_metadata>>
    /\ UNCHANGED <<parse_vars, deps_vars, repr_vars, version_vars, suspended, tags_vars,
                   from_vars, command_vars>>

\* lines 368-409
ConvertJson ==
    /\ mpc = "json"
    /\ LET converted == PypiJsonMetadata(json_response)
       IN  IF converted.ok
           THEN pypi_metadata' = converted.metadata /\ mpc' = "merge"
           ELSE \* AttributeError or TypeError
                pypi_metadata' = pypi_metadata /\ mpc' = "raised"
    /\ UNCHANGED <<wheel_url, metadata_page, json_response, browser_metadata, merged_metadata>>
    /\ UNCHANGED <<parse_vars, deps_vars, repr_vars, version_vars, suspended, tags_vars,
                   from_vars, command_vars>>

\* line 332
Merge ==
    /\ mpc = "merge"
    /\ merged_metadata' = MergeMetadata(pypi_metadata, browser_metadata)
    /\ mpc' = "return"
    /\ UNCHANGED <<wheel_url, metadata_page, json_response, browser_metadata, pypi_metadata>>
    /\ UNCHANGED <<parse_vars, deps_vars, repr_vars, version_vars, suspended, tags_vars,
                   from_vars, command_vars>>

\* line 334
MetadataReturn ==
    /\ mpc = "return"
    /\ mpc' = "done"
    /\ UNCHANGED <<wheel_url, metadata_page, json_response, browser_metadata, pypi_metadata,
                   merged_metadata>>
    /\ UNCHANGED <<parse_vars, deps_vars, repr_vars, version_vars, suspended, tags_vars,
                   from_vars, command_vars>>

MetadataNext ==
    \/ FetchMetadataPage
    \/ NoBrowserMetadata
    \/ CallParseMetadata
    \/ ParseNext
    \/ ParseMetadataReturns
    \/ NoJsonUrl
    \/ FetchMetadataJson
    \/ ConvertJson
    \/ Merge
    \/ MetadataReturn

SpecMetadata == MetadataInit /\ [][MetadataNext]_vars

-----------------------------------------------------------------------------
(* PackageInfo.from_package_name *)

FromInit ==
    /\ package_name \in PackageNames
    /\ package_page = None
    /\ pypi_response = NoResponse
    /\ browser_tags = <<>>
    /\ pypi_data = NoResponse
    /\ enriched_tags = <<>>
    /\ tpc = "idle"
    /\ fpc = "start"
    /\ error = ""
    /\ ParseIdle
    /\ DepsIdle
    /\ ReprIdle
    /\ VersionIdle
    /\ NoneSuspended
    /\ MetadataIdle
    /\ CommandIdle

\* line 101: browser.get_package_tags(package_name) is called
CallGetPackageTags ==
    /\ fpc = "start"
    /\ tpc' = "start"
    /\ fpc' = "tags"
    /\ UNCHANGED <<package_name, package_page, pypi_response, browser_tags, pypi_data,
                   enriched_tags, error>>
    /\ UNCHANGED <<parse_vars, deps_vars, repr_vars, version_vars, suspended, metadata_vars,
                   command_vars>>

\* line 101: what get_package_tags raises is not caught
GetPackageTagsRaises ==
    /\ fpc = "tags"
    /\ tpc = "raised"
    /\ error' = (IF PypiBrowserTags(package_page).ok THEN "AttributeError" ELSE "KeyError")
    /\ fpc' = "raised"
    /\ UNCHANGED <<tags_vars, command_vars>>
    /\ UNCHANGED <<parse_vars, deps_vars, repr_vars, version_vars, suspended, metadata_vars>>

\* lines 102-103: raise ValueError
NoTagsFound ==
    /\ fpc = "tags"
    /\ tpc = "done"
    /\ enriched_tags = <<>>
    /\ error' = "ValueError"
    /\ fpc' = "raised"
    /\ UNCHANGED <<tags_vars, command_vars>>
    /\ UNCHANGED <<parse_vars, deps_vars, repr_vars, version_vars, suspended, metadata_vars>>

\* lines 106-107: first_wheel = tags[0].wheels[0], and first_wheel["url"] is
\* the argument of get_package_metadata; a wheel record without the key "url"
\* raises KeyError.  Lines 108-122 are run from fpc = "metadata" only.
FirstWheel ==
    /\ fpc = "tags"
    /\ tpc = "done"
    /\ enriched_tags # <<>>
    /\ LET first_wheel == enriched_tags[1].wheels[1]
       IN  IF "url" \in DOMAIN first_wheel
           THEN /\ wheel_url' = first_wheel["url"]
                /\ mpc' = "start"
                /\ fpc' = "metadata"
                /\ error' = error
           ELSE /\ wheel_url' = wheel_url
                /\ mpc' = mpc
                /\ fpc' = "raised"
                /\ error' = "KeyError"
    /\ UNCHANGED <<metadata_page, json_response, browser_metadata, pypi_metadata,
                   merged_metadata>>
    /\ UNCHANGED <<tags_vars, command_vars>>
    /\ UNCHANGED <<parse_vars, deps_vars, repr_vars, version_vars, suspended>>

FromNext ==
    \/ CallGetPackageTags
    \/ TagsNext
    \/ GetPackageTagsRaises
    \/ NoTagsFound
    \/ FirstWheel

SpecFrom == FromInit /\ [][FromNext]_vars

-----------------------------------------------------------------------------
(* The commands of __main__: tags, wheels, info, metadata *)

AlphaNumerics == Letters \cup Digits

\* utils.py lines 21-25: not empty, and re.match of
\* ^[a-zA-Z0-9][a-zA-Z0-9._-]*[a-zA-Z0-9]$ ; the pattern needs two characters,
\* and $ also matches in front of a newline that ends the string
ValidatePackageName(name) ==
    IF name = "" THEN FALSE
    ELSE LET matched == IF Ch(name, Len(name)) = "\n"
                        THEN SubSeq(name, 1, Len(name) - 1)
                        ELSE name
         IN  /\ Len(matched) >= 2
             /\ Ch(matched, 1) \in AlphaNumerics
             /\ Ch(matched, Len(matched)) \in AlphaNumerics
             /\ \A i \in 2..(Len(matched) - 1) :
                    Ch(matched, i) \in AlphaNumerics \cup {".", "_", "-"}

UpperCase == "ABCDEFGHIJKLMNOPQRSTUVWXYZ"
LowerCase == "abcdefghijklmnopqrstuvwxyz"

\* str.lower()
RECURSIVE Lower(_)
Lower(s) ==
    IF s = "" THEN ""
    ELSE LET i == FindClass(UpperCase, 1, {Ch(s, 1)})
         IN  (IF i > Len(UpperCase) THEN Ch(s, 1) ELSE Ch(LowerCase, i)) \o Lower(From(s, 2))

\* utils.py line 38
NormalizePackageName(name) == Lower(Strip(name))

\* the first position >= i of s where "==" starts (0 if none)
RECURSIVE FindEquals(_, _)
FindEquals(s, i) ==
    IF i + 1 > Len(s) THEN 0
    ELSE IF SubSeq(s, i, i + 1) = "==" THEN i
    ELSE FindEquals(s, i + 1)

\* lines 67-71, 130-134, 173-177: the name in a package spec; the tags command
\* takes its argument as the name (line 23)
NameOfSpec(cmd, spec) ==
    IF cmd # "tags" /\ FindEquals(spec, 1) # 0
    THEN SubSeq(spec, 1, FindEquals(spec, 1) - 1)
    ELSE spec

\* the methods class PyPIBrowser defines (core.py lines 128-470)
PyPIBrowserMethods ==
    {"__init__", "fetch_content", "get_package_tags", "_get_pypi_browser_tags",
     "_get_pypi_json_data", "_enrich_tags_with_pypi_data", "get_wheel_files",
     "get_package_metadata", "_get_browser_metadata", "_get_pypi_json_metadata",
     "extract_dependencies", "get_package_info"}

\* A call of click.echo, by the message it writes and the stream (err=True);
\* the text of the message is not modelled.
Echo(what) == [err |-> FALSE, what |-> what]
EchoErr(what) == [err |-> TRUE, what |-> what]

\* lines 36-39, 84-87, 190-193
EchoNothingFound(json) == <<Echo(IF json THEN "nothing found, JSON" ELSE "nothing found")>>

\* lines 42-53, 90-116: the JSON document, or the header, the rule and a line
\* for each tag (and, for wheels, for each wheel)
RECURSIVE TagLines(_, _, _)
TagLines(cmd, tags, i) ==
    IF i > Len(tags) THEN <<>>
    ELSE <<Echo("tag")>>
         \o (IF cmd = "wheels" THEN [j \in 1..Len(tags[i].wheels) |-> Echo("wheel")] ELSE <<>>)
         \o TagLines(cmd, tags, i + 1)

EchoTags(cmd, json, tags) ==
    IF json THEN <<Echo("JSON")>>
    ELSE <<Echo("header"), Echo("rule")>> \o TagLines(cmd, tags, 1)

\* lines 211-227: the fields the metadata command shows
ShownFields == <<"Name", "Version", "Summary", "Author", "Author-email", "License",
                 "Home-page", "Requires-Python">>

RECURSIVE FieldLines(_, _)
FieldLines(md, i) ==
    IF i > Len(ShownFields) THEN <<>>
    ELSE (IF ShownFields[i] \in DOMAIN md THEN <<Echo(ShownFields[i])>> ELSE <<>>)
         \o FieldLines(md, i + 1)

\* lines 230-241: the count of a field is shown when the field is truthy
CountLine(md, field) ==
    IF field \in DOMAIN md /\ Truthy(md[field]) THEN <<Echo(field)>> ELSE <<>>

\* lines 200-241
EchoMetadata(json, md) ==
    IF json THEN <<Echo("JSON")>>
    ELSE <<Echo("header"), Echo("rule")>> \o FieldLines(md, 1)
         \o CountLine(md, "Requires-Dist") \o CountLine(md, "Classifier")

\* The arguments the commands are run with: names of one and of two
\* characters, with an upper-case letter, with '.', '_' and '-' inside and at
\* an end, with a space, with a newline at the end, empty, and with a version.
PackageSpecs == {"q", "pk", "Pk", "p.k", "p_k", "-p", "p-", "p k", "", "pk\n",
                 "pk==1.0", "q==1.0", "==1.0"}

Commands == {"tags", "wheels", "info", "metadata"}

CommandInit ==
    /\ command \in Commands
    /\ package_spec \in PackageSpecs
    /\ output_json \in BOOLEAN
    /\ echoed = <<>>
    /\ exit_status = None
    /\ cpc = "start"
    /\ ParseIdle
    /\ DepsIdle
    /\ ReprIdle
    /\ VersionIdle
    /\ NoneSuspended
    /\ TagsIdle
    /\ MetadataIdle
    /\ FromIdle

\* lines 25-27, 73-75, 136-138, 179-181
RejectName ==
    /\ cpc = "start"
    /\ ~ValidatePackageName(NameOfSpec(command, package_spec))
    /\ echoed' = Append(echoed, EchoErr("not a valid package name"))
    /\ exit_status' = Some(1)
    /\ cpc' = "exited"
    /\ UNCHANGED <<command, package_spec, output_json>>
    /\ UNCHANGED <<parse_vars, deps_vars, repr_vars, version_vars, suspended, tags_vars,
                   metadata_vars, from_vars>>

\* lines 29, 77, 140, 183
AcceptName ==
    /\ cpc = "start"
    /\ ValidatePackageName(NameOfSpec(command, package_spec))
    /\ package_name' = NormalizePackageName(NameOfSpec(command, package_spec))
    /\ cpc' = "try"
    /\ UNCHANGED <<package_page, pypi_response, browser_tags, pypi_data, enriched_tags, tpc>>
    /\ UNCHANGED <<command, package_spec, output_json, echoed, exit_status>>
    /\ UNCHANGED <<parse_vars, deps_vars, repr_vars, version_vars, suspended, metadata_vars,
                   from_vars>>

\* lines 143-163: browser.get_comprehensive_data raises AttributeError when
\* PyPIBrowser has no such method, and the except clause of line 161 echoes the
\* error and exits
InfoCommand ==
    /\ cpc = "try"
    /\ command = "info"
    /\ IF "get_comprehensive_data" \in PyPIBrowserMethods
       THEN /\ echoed' = echoed \o (IF output_json THEN <<Echo("JSON")>>
                                    ELSE <<Echo("header"), Echo("rule"), Echo("Package"),
                                           Echo("Latest version"), Echo("Wheel count"),
                                           Echo("Dependencies"),
                                           Echo("Optional dependencies"),
                                           Echo("Wheel files")>>)
            /\ exit_status' = Some(0)
       ELSE /\ echoed' = Append(echoed, EchoErr("Error"))
            /\ exit_status' = Some(1)
    /\ cpc' = "exited"
    /\ UNCHANGED <<command, package_spec, output_json>>
    /\ UNCHANGED <<parse_vars, deps_vars, repr_vars, version_vars, suspended, tags_vars,
                   metadata_vars, from_vars>>

\* lines 32-33, 80-81, 186-187: browser.get_package_tags(package_name) is called
CommandCallsGetPackageTags ==
    /\ cpc = "try"
    /\ command # "info"
    /\ tpc' = "start"
    /\ cpc' = "tags"
    /\ UNCHANGED <<package_name, package_page, pypi_response, browser_tags, pypi_data,
                   enriched_tags>>
    /\ UNCHANGED <<command, package_spec, output_json, echoed, exit_status>>
    /\ UNCHANGED <<parse_vars, deps_vars, repr_vars, version_vars, suspended, metadata_vars,
                   from_vars>>

\* lines 55-57, 118-120, 243-245: an exception of get_package_tags or of
\* get_package_metadata is caught
CommandCatches ==
    /\ \/ cpc = "tags" /\ tpc = "raised"
       \/ cpc = "metadata" /\ mpc = "raised"
    /\ echoed' = Append(echoed, EchoErr("Error"))
    /\ exit_status' = Some(1)
    /\ cpc' = "exited"
    /\ UNCHANGED <<command, package_spec, output_json>>
    /\ UNCHANGED <<parse_vars, deps_vars, repr_vars, version_vars, suspended, tags_vars,
                   metadata_vars, from_vars>>

\* lines 35-40, 83-88, 189-194: no tags, the command returns
NothingFound ==
    /\ cpc = "tags"
    /\ tpc = "done"
    /\ enriched_tags = <<>>
    /\ echoed' = echoed \o EchoNothingFound(output_json)
    /\ exit_status' = Some(0)
    /\ cpc' = "exited"
    /\ UNCHANGED <<command, package_spec, output_json>>
    /\ UNCHANGED <<parse_vars, deps_vars, repr_vars, version_vars, suspended, tags_vars,
                   metadata_vars, from_vars>>

\* lines 42-53, 90-116
ShowTags ==
    /\ cpc = "tags"
    /\ tpc = "done"
    /\ enriched_tags # <<>>
    /\ command \in {"tags", "wheels"}
    /\ echoed' = echoed \o EchoTags(command, output_json, enriched_tags)
    /\ exit_status' = Some(0)
    /\ cpc' = "exited"
    /\ UNCHANGED <<command, package_spec, output_json>>
    /\ UNCHANGED <<parse_vars, deps_vars, repr_vars, version_vars, suspended, tags_vars,
                   metadata_vars, from_vars>>

\* lines 197-198: browser.get_package_metadata(first_wheel["browser_url"]) is called
CommandCallsGetPackageMetadata ==
    /\ cpc = "tags"
    /\ tpc = "done"
    /\ enriched_tags # <<>>
    /\ command = "metadata"
    /\ wheel_url' = enriched_tags[1].wheels[1].browser_url
    /\ mpc' = "start"
    /\ cpc' = "metadata"
    /\ UNCHANGED <<metadata_page, json_response, browser_metadata, pypi_metadata,
                   merged_metadata>>
    /\ UNCHANGED <<command, package_spec, output_json, echoed, exit_status>>
    /\ UNCHANGED <<parse_vars, deps_vars, repr_vars, version_vars, suspended, tags_vars,
                   from_vars>>

\* lines 200-241
ShowMetadata ==
    /\ cpc = "metadata"
    /\ mpc = "done"
    /\ echoed' = echoed \o EchoMetadata(output_json, merged_metadata)
    /\ exit_status' = Some(0)
    /\ cpc' = "exited"
    /\ UNCHANGED <<command, package_spec, output_json>>
    /\ UNCHANGED <<parse_vars, deps_vars, repr_vars, version_vars, suspended, tags_vars,
                   metadata_vars, from_vars>>

CommandNext ==
    \/ RejectName
    \/ AcceptName
    \/ InfoCommand
    \/ CommandCallsGetPackageTags
    \/ TagsNext
    \/ CommandCatches
    \/ NothingFound
    \/ ShowTags
    \/ CommandCallsGetPackageMetadata
    \/ MetadataNext
    \/ ShowMetadata

SpecCommand == CommandInit /\ [][CommandNext]_vars

-----------------------------------------------------------------------------
(* The claims about parse_metadata *)

\* the multi-valued fields the specification declares
DeclaredMultiValued == {"Classifier", "Requires-Dist", "Provides-Extra",
                        "Project-URL", "License-File"}

\* the positions of the KEY: value lines of ls whose key is k
Occ(ls, k) == {i \in 1..Len(ls) : MatchKeyValue(ls[i]).ok /\ MatchKeyValue(ls[i]).key = k}

\* the keys of the KEY: value lines of ls
KeysOf(ls) == {MatchKeyValue(ls[i]).key : i \in {j \in 1..Len(ls) : MatchKeyValue(ls[j]).ok}}

\* the header lines the header loop has processed so far
Processed ==
    IF pc = "partition" THEN <<>>
    ELSE IF pc = "header" THEN SubSeq(header_lines, 1, li - 1)
    ELSE header_lines

\* the position in ls of the j-th KEY: value line with key k
NthOcc(ls, k, j) == CHOOSE i \in Occ(ls, k) : Cardinality({m \in Occ(ls, k) : m <= i}) = j

StartsWith(s, prefix) == Len(s) >= Len(prefix) /\ SubSeq(s, 1, Len(prefix)) = prefix

\* the position of the first blank line of ls (Len(ls) + 1 if none)
RECURSIVE FirstBlankFrom(_, _)
FirstBlankFrom(ls, i) ==
    IF i <= Len(ls) /\ Strip(ls[i]) # "" THEN FirstBlankFrom(ls, i + 1) ELSE i

FirstBlank(ls) == FirstBlankFrom(ls, 1)

\* the lines before the first blank line, and the lines after it
HeaderOf(ls) == SubSeq(ls, 1, FirstBlank(ls) - 1)
BlockOf(ls) == SubSeq(ls, FirstBlank(ls) + 1, Len(ls))

\* the document as written, and with its leading and trailing whitespace removed
RawLines == SplitLines(metadata_text)
TrimmedLines == SplitLines(Strip(metadata_text))

WellFormed(res) ==
    \A k \in DOMAIN res :
        /\ res[k].kind \in {"str", "list"}
        /\ IsStr(res[k]) => Len(res[k].items) = 1

\* a variant that every step of parse_metadata decreases
PcRank == CASE pc = "partition" -> 4 [] pc = "header" -> 3 [] pc = "description" -> 2
            [] pc = "return" -> 1 [] OTHER -> 0

Measure ==
    PcRank * (Len(lines) + 2)
    + (IF pc = "partition" THEN Len(lines) + 1 - li
       ELSE IF pc = "header" THEN Len(header_lines) + 1 - li ELSE 0)

\* some action of parse_metadata is enabled: the loop actions' guards cover every
\* line, and the loop-end actions the position after the last line
CanStep ==
    \/ pc = "partition" /\ li \in 1..(Len(lines) + 1)
    \/ pc = "header" /\ li \in 1..(Len(header_lines) + 1)
    \/ pc \in {"description", "return"}

\* C1: on every input parse_metadata never raises, every step brings it closer
\* to its return (it terminates), it cannot get stuck before the return, and it
\* returns a well-formed mapping whose keys come from KEY: value lines of the
\* input (or are Description): malformed input only leaves fields out.
C1_NeverFails ==
    /\ [](/\ pc # "raised"
          /\ pc # "done" => CanStep
          /\ WellFormed(result)
          /\ DOMAIN result \subseteq KeysOf(lines) \cup {"Description"})
    /\ [][Measure' < Measure]_vars

\* C1 witness: a call has returned on an input with a line that is no field,
\* a continuation line and a repeated key
C1_Witness ==
    /\ pc = "done"
    /\ \E i \in 1..Len(header_lines) :
           /\ ~MatchKeyValue(header_lines[i]).ok
           /\ Ch(header_lines[i], 1) # " "
    /\ \E i \in 1..Len(header_lines) : Ch(header_lines[i], 1) = " "
    /\ \E k \in DOMAIN result : IsList(result[k]) /\ Len(result[k].items) >= 2

\* C2: after every header line processed, each declared multi-valued field that
\* occurred is stored as a sequence with one element per occurrence so far: one
\* occurrence gives a one-element sequence, never a scalar.
C2_MultiValuedIsSequence ==
    \A k \in DeclaredMultiValued :
        LET n == Cardinality(Occ(Processed, k))
        IN  /\ k \in DOMAIN result <=> n >= 1
            /\ k \in DOMAIN result => IsList(result[k]) /\ Len(result[k].items) = n

\* C2 witness: the call returned with License-File, seen once, as a one-element sequence
C2_Witness ==
    /\ pc = "done"
    /\ Cardinality(Occ(header_lines, "License-File")) = 1
    /\ "License-File" \in DOMAIN result
    /\ Len(result["License-File"].items) = 1

ActiveKey(i) ==
    LET ms == {m \in 1..(i - 1) : MatchKeyValue(header_lines[m]).ok}
    IN  IF ms = {} THEN <<>> ELSE <<MatchKeyValue(header_lines[Max(ms)]).key>>

\* C4: the step that processes a continuation line (a line that starts with a
\* space, after some KEY: value line) appends one space and the trimmed line to
\* the last stored value of the active key (the scalar, or the last element of
\* the sequence) and changes nothing else: no earlier element, no other key.
C4_ContinuationGluesOntoLast ==
    [][(/\ pc = "header" /\ li <= Len(header_lines)
        /\ Ch(header_lines[li], 1) = " "
        /\ ActiveKey(li) # <<>>)
       => LET k == ActiveKey(li)[1]
              n == Len(result[k].items)
          IN  /\ DOMAIN result' = DOMAIN result
              /\ \A x \in DOMAIN result \ {k} : result'[x] = result[x]
              /\ result'[k].kind = result[k].kind
              /\ Len(result'[k].items) = n
              /\ \A j \in 1..(n - 1) : result'[k].items[j] = result[k].items[j]
              /\ result'[k].items[n] =
                     result[k].items[n] \o " " \o Strip(header_lines[li])]_vars

\* C4 witness: two consecutive continuation lines have accumulated, in order,
\* on the last element of a two-element sequence, the first element untouched
C4_Witness ==
    /\ pc = "done"
    /\ \E k \in DOMAIN result :
           /\ IsList(result[k]) /\ Len(result[k].items) = 2
           /\ result[k].items[2] = "b x x"
           /\ result[k].items[1] = "a"

\* the mapping is what a document with the lines ls, split at its first blank
\* line, gives: its fields are those of the lines before the first blank line,
\* one value per occurrence there (the lines after it add no field and no value),
\* and the lines after it, joined and trimmed, are the Description
MappingSplitAtFirstBlank(ls) ==
    /\ DOMAIN result \ {"Description"} = KeysOf(HeaderOf(ls)) \ {"Description"}
    /\ \A k \in DOMAIN result \ {"Description"} :
           Len(result[k].items) = Cardinality(Occ(HeaderOf(ls), k))
    /\ Strip(Join(BlockOf(ls), "\n")) # "" =>
           /\ "Description" \in DOMAIN result
           /\ result["Description"] = Str(Strip(Join(BlockOf(ls), "\n")))

BlockIsBlank == Strip(Join(BlockOf(RawLines), "\n")) = ""

\* C6 as claimed: with an empty or absent description block the returned
\* mapping has no Description key.
C6_NoDescriptionKey ==
    (pc = "done" /\ BlockIsBlank) => "Description" \notin DOMAIN result

\* C6 as amended: with an empty or absent description block and no header line
\* with the key Description, the returned mapping has no Description key (not
\* even one holding the empty string); a Description key is then present
\* exactly when a header line has that key.
C6_NoDescriptionKeyUnlessHeader ==
    (pc = "done" /\ BlockIsBlank) =>
        ("Description" \in DOMAIN result <=> Occ(HeaderOf(TrimmedLines), "Description") # {})

\* C6 witness: the call returned a non-empty mapping without Description for a
\* document that has a blank line with only blank text after it
C6_Witness ==
    /\ pc = "done"
    /\ FirstBlank(RawLines) < Len(RawLines)
    /\ BlockIsBlank
    /\ DOMAIN result # {}
    /\ "Description" \notin DOMAIN result

\* C7: for an empty or whitespace-only document the returned mapping is empty
\* (so it has no Description key).
C7_BlankDocumentGivesEmptyMapping ==
    (pc = "done" /\ Strip(metadata_text) = "") => DOMAIN result = {}

\* C7 witness: the call returned on a whitespace-only document with several lines
C7_Witness ==
    /\ pc = "done"
    /\ Strip(metadata_text) = ""
    /\ Len(RawLines) >= 2
    /\ \E i \in 1..Len(RawLines) : RawLines[i] # ""

-----------------------------------------------------------------------------
(* The claims about extract_dependencies *)

\* the Requires-Dist entries of the mapping, in order
InputReqs ==
    IF "Requires-Dist" \notin DOMAIN metadata THEN <<>>
    ELSE IF IsStr(metadata["Requires-Dist"]) THEN <<metadata["Requires-Dist"].items[1]>>
    ELSE metadata["Requires-Dist"].items

\* r holds a ; extra == "<name>" clause somewhere
HasExtraClause(r) == \E i \in 1..Len(r) : MatchExtraAt(r, i).ok

\* the cleaned requirement: every matched clause removed, then trimmed
CleanedReq(r) == Strip(SubExtras(Strip(r)))

\* r is parsable: extract_dependencies builds a Dependency from it
Parsable(r) == MatchPackage(CleanedReq(r)).ok

\* the Dependency the claims describe for r: the leading maximal run of name
\* characters of the cleaned requirement, and the trimmed rest or nothing
ClaimedPackage(r) == SubSeq(CleanedReq(r), 1, RunLen(CleanedReq(r), PkgChars))

ClaimedCondition(r) ==
    LET rest == Strip(From(CleanedReq(r), RunLen(CleanedReq(r), PkgChars) + 1))
    IN  IF rest = "" THEN <<>> ELSE <<rest>>

ClaimedDep(r) == [package |-> ClaimedPackage(r), condition |-> ClaimedCondition(r)]

\* how many times the extra e is named in r
TimesNamed(r, e) ==
    Cardinality({j \in 1..Len(FindAllExtras(Strip(r))) : FindAllExtras(Strip(r))[j] = e})

\* the Dependencies of the parsable requirements of reqs without an extra
\* clause, in the order of reqs
RECURSIVE RequiredOf(_)
RequiredOf(reqs) ==
    IF reqs = <<>> THEN <<>>
    ELSE (IF Parsable(Head(reqs)) /\ ~HasExtraClause(Head(reqs))
          THEN <<ClaimedDep(Head(reqs))>> ELSE <<>>) \o RequiredOf(Tail(reqs))

\* the Dependencies of the parsable requirements of reqs that name the extra e,
\* once per naming, in the order of reqs
RECURSIVE FiledUnder(_, _)
FiledUnder(reqs, e) ==
    IF reqs = <<>> THEN <<>>
    ELSE (IF Parsable(Head(reqs))
          THEN [j \in 1..TimesNamed(Head(reqs), e) |-> ClaimedDep(Head(reqs))]
          ELSE <<>>) \o FiledUnder(Tail(reqs), e)

\* the extras named by the parsable requirements of reqs
ExtraNames(reqs) ==
    UNION {{FindAllExtras(Strip(reqs[i]))[j] : j \in 1..Len(FindAllExtras(Strip(reqs[i])))} :
             i \in {k \in 1..Len(reqs) : Parsable(reqs[k])}}

\* C8: in the returned pair, the required sequence holds exactly the parsable
\* requirements without an extra clause, and the optional mapping holds under
\* each extra name exactly the parsable requirements that name it (so none is
\* in both), each in the relative order of the Requires-Dist entries.
C8_FiledInOrder ==
    dpc = "done" =>
        /\ dependencies = RequiredOf(InputReqs)
        /\ DOMAIN optional_dependencies = ExtraNames(InputReqs)
        /\ \A e \in DOMAIN optional_dependencies :
               optional_dependencies[e] = FiledUnder(InputReqs, e)

\* C8 witness: a call returned two different required dependencies, in input
\* order, and an optional one, from three requirements
C8_Witness ==
    /\ dpc = "done"
    /\ Len(InputReqs) = 3
    /\ Len(dependencies) = 2
    /\ dependencies[1].package = "requests"
    /\ dependencies[2].package = "coverage"
    /\ DOMAIN optional_dependencies # {}

\* the Dependencies stored so far
StoredDeps ==
    {dependencies[i] : i \in 1..Len(dependencies)}
    \cup UNION {{optional_dependencies[e][i] : i \in 1..Len(optional_dependencies[e])} :
                  e \in DOMAIN optional_dependencies}

\* C9: every Dependency a loop step appends, to the required sequence or to an
\* extra's sequence, has as package the leading maximal run of name characters
\* of the cleaned requirement and as condition the trimmed rest of it, verbatim,
\* or no condition when nothing remains; no stored condition is the empty string.
C9_PackageAndCondition ==
    /\ [](\A d \in StoredDeps : d.condition # <<"">> /\ d.package # "")
    /\ [][(dpc = "loop" /\ ri <= Len(requires_dist)) =>
            /\ dependencies' # dependencies =>
                   dependencies' = Append(dependencies, ClaimedDep(requires_dist[ri]))
            /\ \A e \in DOMAIN optional_dependencies' :
                   (e \notin DOMAIN optional_dependencies
                    \/ optional_dependencies'[e] # optional_dependencies[e]) =>
                       optional_dependencies'[e][Len(optional_dependencies'[e])] =
                           ClaimedDep(requires_dist[ri])]_vars

\* C9 witness: a call returned a dependency without condition, and under an
\* extra a dependency whose condition is the text that followed the extra clause
C9_Witness ==
    /\ dpc = "done"
    /\ [package |-> "requests", condition |-> <<>>] \in StoredDeps
    /\ "test" \in DOMAIN optional_dependencies
    /\ \E i \in 1..Len(optional_dependencies["test"]) :
           optional_dependencies["test"][i] =
               [package |-> "anotherpkg", condition |-> <<"and python_version < '3.10'">>]

\* C10: without a Requires-Dist field, or with an empty sequence as its value,
\* extract_dependencies does not raise and returns an empty required sequence
\* and an empty optional mapping.
C10_NoRequirements ==
    ("Requires-Dist" \notin DOMAIN metadata \/ InputReqs = <<>>) =>
        /\ dpc # "raised"
        /\ dpc = "done" => dependencies = <<>> /\ DOMAIN optional_dependencies = {}

\* C10 witness: a call returned for a mapping that has fields but no Requires-Dist
C10_Witness ==
    /\ dpc = "done"
    /\ "Requires-Dist" \notin DOMAIN metadata
    /\ DOMAIN metadata # {}

\* the pair extract_dependencies returns for the sequence reqs of requirements
ResultOfSequence(reqs) ==
    <<RequiredOf(reqs), [e \in ExtraNames(reqs) |-> FiledUnder(reqs, e)]>>

\* C11: a Requires-Dist stored as one scalar string gives the result of the
\* one-element sequence holding that string: whether the one requirement is
\* stored as a scalar or as a one-element sequence, the loop runs over exactly
\* that one string and the returned pair is the pair of that sequence.
C11_ScalarIsOneRequirement ==
    ("Requires-Dist" \in DOMAIN metadata /\ Len(InputReqs) = 1) =>
        /\ dpc \in {"loop", "done"} => requires_dist = <<InputReqs[1]>>
        /\ dpc = "done" =>
               <<dependencies, optional_dependencies>> = ResultOfSequence(<<InputReqs[1]>>)

\* C11 witness: a call returned for a scalar Requires-Dist of several
\* characters, with one dependency filed
C11_Witness ==
    /\ dpc = "done"
    /\ "Requires-Dist" \in DOMAIN metadata
    /\ IsStr(metadata["Requires-Dist"])
    /\ Len(metadata["Requires-Dist"].items[1]) > 1
    /\ DOMAIN optional_dependencies = {"test"}
    /\ Len(optional_dependencies["test"]) = 1
    /\ optional_dependencies["test"][1].package = "pytest"

\* the extras named by the extra == "<name>" clauses of s, wherever they stand
\* in the marker (the pattern of line 427 without its leading semicolon)
MarkerNames(s) ==
    {MatchExtraAt(";" \o From(s, i), 1).name :
        i \in {j \in 1..Len(s) : /\ ChAt(s, j) \in ExtraWord[1]
                                 /\ ChAt(s, j - 1) \notin Letters \cup Digits \cup {"_"}
                                 /\ MatchExtraAt(";" \o From(s, j), 1).ok}}

\* the condition c holds an extra == "<name>" clause
NamesAnExtra(c) == c # <<>> /\ MarkerNames(c[1]) # {}

\* the parsable requirements of the call that hold two extra == "<name>" clauses
\* (their package names are borne by no other requirement of the call)
TwoExtraReqs ==
    {InputReqs[k] : k \in {j \in 1..Len(InputReqs) :
        Parsable(InputReqs[j]) /\ Cardinality(MarkerNames(InputReqs[j])) = 2}}

\* C12: a requirement with two extra == "<name>" clauses is filed under each of
\* the two named extras and not in required, each copy with the same package
\* and the same condition, which holds no extra clause any more.
C12_FiledUnderBothExtras ==
    dpc = "done" =>
        \A r \in TwoExtraReqs :
            /\ \A j \in 1..Len(dependencies) : dependencies[j].package # ClaimedPackage(r)
            /\ \E c \in {<<>>} \cup {<<d.condition[1]>> : d \in {x \in StoredDeps : x.condition # <<>>}} :
                  /\ ~NamesAnExtra(c)
                  /\ \A e \in MarkerNames(r) :
                        /\ e \in DOMAIN optional_dependencies
                        /\ \E j \in 1..Len(optional_dependencies[e]) :
                              optional_dependencies[e][j] =
                                  [package |-> ClaimedPackage(r), condition |-> c]

\* C12 witness: a call returned for a requirement whose two extra clauses are
\* joined by "or"; it is filed under the first extra only and keeps the second
\* clause in its condition
C12_Witness ==
    /\ dpc = "done"
    /\ "bar; extra == 'a' or extra == 'b'" \in TwoExtraReqs
    /\ "a" \in DOMAIN optional_dependencies
    /\ "b" \notin DOMAIN optional_dependencies
    /\ [package |-> "bar", condition |-> <<"or extra == 'b'">>] \in StoredDeps

\* what holds of two extra clauses: a requirement in which the pattern of line
\* 427 (with its semicolon) matches twice is filed under both names and not in
\* required
C12_TwoSemicolonClauses ==
    dpc = "done" =>
        \A k \in 1..Len(InputReqs) :
            (Parsable(InputReqs[k]) /\ Len(FindAllExtras(Strip(InputReqs[k]))) = 2) =>
                /\ \A j \in 1..Len(dependencies) :
                      dependencies[j].package # ClaimedPackage(InputReqs[k])
                /\ \A e \in ExtraNames(<<InputReqs[k]>>) :
                      /\ e \in DOMAIN optional_dependencies
                      /\ ClaimedDep(InputReqs[k]) \in
                            {optional_dependencies[e][j] : j \in 1..Len(optional_dependencies[e])}

\* the number of Dependency entries in the extras' sequences of opt named in S
RECURSIVE EntriesIn(_, _)
EntriesIn(opt, S) ==
    IF S = {} THEN 0
    ELSE LET e == CHOOSE x \in S : TRUE
         IN  Len(opt[e]) + EntriesIn(opt, S \ {e})

\* the number of Dependency entries across required and all extras' sequences
TotalEntries ==
    Len(dependencies) + EntriesIn(optional_dependencies, DOMAIN optional_dependencies)

\* the cleaned text of r starts with a package-name token
StartsWithToken(r) == RunLen(CleanedReq(r), PkgChars) >= 1

\* a loop step at a requirement that yields no Dependency changes neither
\* result and moves on to the next requirement
DroppedStepsChangeNothing ==
    [][(dpc = "loop" /\ ri <= Len(requires_dist) /\ ~Parsable(requires_dist[ri])) =>
          /\ dependencies' = dependencies
          /\ optional_dependencies' = optional_dependencies
          /\ ri' = ri + 1
          /\ dpc' = "loop"]_vars

\* C13 as stated: requirements whose cleaned text does not start with a
\* package-name token are omitted while the others are processed, and the
\* total number of entries is the number of requirements less the number of
\* those without a token.
C13_CountIsInputsLessUnparsable ==
    dpc = "done" =>
        /\ \A d \in StoredDeps : \E k \in 1..Len(InputReqs) :
              StartsWithToken(InputReqs[k]) /\ d = ClaimedDep(InputReqs[k])
        /\ TotalEntries =
              Len(InputReqs)
              - Cardinality({k \in 1..Len(InputReqs) : ~StartsWithToken(InputReqs[k])})

\* the entries one requirement contributes: none when the package pattern does
\* not match its cleaned text, one per matched extra clause, one without any
EntriesOf(r) ==
    IF ~Parsable(r) THEN 0
    ELSE IF HasExtraClause(r) THEN Len(FindAllExtras(Strip(r)))
    ELSE 1

RECURSIVE EntriesOfAll(_)
EntriesOfAll(reqs) ==
    IF reqs = <<>> THEN 0 ELSE EntriesOf(Head(reqs)) + EntriesOfAll(Tail(reqs))

\* C13, amended: a requirement whose cleaned text does not start with a
\* package-name token (or has a line break after the token) yields no entry and
\* its loop step changes neither result, while the loop goes on; every other
\* requirement yields one entry in required, or one entry per matched extra
\* clause, so the total is the sum of these.
C13_DroppedAndCounted ==
    /\ DroppedStepsChangeNothing
    /\ [](\A k \in 1..Len(InputReqs) :
             ~StartsWithToken(InputReqs[k]) => ~Parsable(InputReqs[k]))
    /\ [](dpc = "done" =>
             /\ \A d \in StoredDeps : \E k \in 1..Len(InputReqs) :
                   Parsable(InputReqs[k]) /\ d = ClaimedDep(InputReqs[k])
             /\ TotalEntries = EntriesOfAll(InputReqs))

\* C13 witness: a call returned two entries for three requirements, the second
\* of which does not start with a package-name token
C13_Witness ==
    /\ dpc = "done"
    /\ Len(InputReqs) = 3
    /\ InputReqs[2] = ">=1.0"
    /\ Parsable(InputReqs[1]) /\ Parsable(InputReqs[3])
    /\ InputReqs[1] # InputReqs[3]
    /\ TotalEntries = 2

\* what is left of a call of extract_dependencies: it decreases with every step
DepsMeasure ==
    CASE dpc = "start"  -> Len(InputReqs) + 4
      [] dpc = "loop"   -> Len(requires_dist) - ri + 3
      [] dpc = "return" -> 1
      [] OTHER          -> 0

\* the guard of some step of extract_dependencies holds
DepsCanStep ==
    \/ dpc = "start"
    \/ dpc = "loop" /\ ri > Len(requires_dist)
    \/ dpc = "loop" /\ ri <= Len(requires_dist) /\ Req = ""
    \/ dpc = "loop" /\ ri <= Len(requires_dist) /\ Req # "" /\ ~MatchPackage(ReqClean).ok
    \/ dpc = "loop" /\ ri <= Len(requires_dist) /\ Req # "" /\ MatchPackage(ReqClean).ok
    \/ dpc = "return"

\* the Dependencies the requirements of the mapping can yield
YieldedDeps == {ClaimedDep(InputReqs[k]) : k \in {j \in 1..Len(InputReqs) : Parsable(InputReqs[j])}}

\* C14: extract_dependencies never raises, whatever the mapping holds (no
\* Requires-Dist, a scalar, a sequence; empty, whitespace-only or unparsable
\* entries): until it has returned it can always take a step, every step brings
\* it nearer to its return, and what it returns is at most the Dependencies
\* of the parsable entries (empty when there is none).
C14_NeverRaises ==
    /\ [](/\ dpc # "raised"
          /\ dpc # "done" => DepsCanStep
          /\ dpc = "done" => /\ StoredDeps \subseteq YieldedDeps
                             /\ TotalEntries <= EntriesOfAll(InputReqs))
    /\ [][DepsMeasure' < DepsMeasure]_vars

\* C14 witness: a call returned a partial result, one entry for three
\* requirements of which the first and the last are not parsable
C14_Witness ==
    /\ dpc = "done"
    /\ Len(InputReqs) = 3
    /\ ~Parsable(InputReqs[1]) /\ Parsable(InputReqs[2]) /\ ~Parsable(InputReqs[3])
    /\ TotalEntries = 1

-----------------------------------------------------------------------------
(* The claims about Dependency.__repr__ *)

\* C15: repr and str of a Dependency are its package alone when it has no
\* condition; with a condition they are the package, then exactly one space,
\* then the condition.
C15_Rendering ==
    rpc \in {"repr", "str"} =>
        IF self.condition = <<>>
        THEN rendered = self.package
        ELSE /\ Len(rendered) = Len(self.package) + 1 + Len(self.condition[1])
             /\ SubSeq(rendered, 1, Len(self.package)) = self.package
             /\ ChAt(rendered, Len(self.package) + 1) = " "
             /\ From(rendered, Len(self.package) + 2) = self.condition[1]

\* C15 witness: str() returned for a Dependency with a condition
C15_Witness ==
    /\ rpc = "str"
    /\ self = [package |-> "requests", condition |-> <<">=2.25.0">>]
    /\ rendered = "requests >=2.25.0"

-----------------------------------------------------------------------------
(* The claims about extract_required_python_version *)

\* v is a Python version: digits, or runs of digits joined by single dots
IsPythonVersion(v) ==
    /\ v # ""
    /\ \A i \in 1..Len(v) : ChAt(v, i) \in Digits \cup {"."}
    /\ ChAt(v, 1) # "." /\ ChAt(v, Len(v)) # "."
    /\ \A i \in 1..Len(v) - 1 : ~(ChAt(v, i) = "." /\ ChAt(v, i + 1) = ".")

\* the classifiers of the mapping, in order
InputClassifiers ==
    IF "Classifier" \notin DOMAIN classifier_metadata THEN <<>>
    ELSE classifier_metadata["Classifier"].items

\* the Python version the classifier c specifies, "" when it specifies none
SpecifiedVersion(c) ==
    IF HasPrefix(c, PythonPrefix) /\ IsPythonVersion(Strip(From(c, Len(PythonPrefix) + 1)))
    THEN Strip(From(c, Len(PythonPrefix) + 1))
    ELSE ""

\* the first non-empty version of vs (the first with a dot when dotted), "" if none
RECURSIVE FirstVersion(_, _)
FirstVersion(vs, dotted) ==
    IF vs = <<>> THEN ""
    ELSE IF Head(vs) # "" /\ (dotted => HasDot(Head(vs))) THEN Head(vs)
    ELSE FirstVersion(Tail(vs), dotted)

\* the version the claim describes
ClaimedVersion ==
    LET vs == [i \in 1..Len(InputClassifiers) |-> SpecifiedVersion(InputClassifiers[i])]
    IN  IF FirstVersion(vs, TRUE) # "" THEN FirstVersion(vs, TRUE)
        ELSE FirstVersion(vs, FALSE)

\* C17: extract_required_python_version returns the first specific (dotted)
\* version of the Python classifiers, in classifier order, otherwise the first
\* generic one, and the empty string when no classifier specifies a Python
\* version: the result is always empty or a Python version.
C17_ReturnsPythonVersion ==
    vpc = "done" =>
        /\ version = "" \/ IsPythonVersion(version)
        /\ version = ClaimedVersion

\* C17 witness: a call returned for a mapping whose only Python classifier
\* names an implementation: the result is the implementation's name
C17_Witness ==
    /\ vpc = "done"
    /\ InputClassifiers = <<"Programming Language :: Python :: Implementation :: CPython">>
    /\ version = "CPython"

\* what holds of the result: it is one of the classifiers' last segments, the
\* first dotted one when a classifier has a dotted last segment
C17_FirstDottedLastSegment ==
    vpc = "done" =>
        /\ version # "" => \E i \in 1..Len(InputClassifiers) :
                              /\ HasPrefix(InputClassifiers[i], PythonPrefix)
                              /\ version = VersionOf(InputClassifiers[i])
        /\ \A i \in 1..Len(InputClassifiers) :
              (/\ IsSpecific(InputClassifiers[i])
               /\ \A j \in 1..i - 1 : ~IsSpecific(InputClassifiers[j]))
                  => version = VersionOf(InputClassifiers[i])

-----------------------------------------------------------------------------
(* The claims about concurrent calls *)

\* the mapping parse_metadata builds from the header lines hl from line i on,
\* with current key k and the mapping res built so far
RECURSIVE HeaderFold(_, _, _, _)
HeaderFold(hl, i, k, res) ==
    IF i > Len(hl) THEN res
    ELSE IF IsContinuation(hl[i], k)
    THEN HeaderFold(hl, i + 1, k,
                    [res EXCEPT ![k[1]] = AppendContinuation(@, Strip(hl[i]))])
    ELSE IF MatchKeyValue(hl[i]).ok
    THEN HeaderFold(hl, i + 1, <<MatchKeyValue(hl[i]).key>>,
                    StoreValue(res, MatchKeyValue(hl[i]).key, MatchKeyValue(hl[i]).value))
    ELSE HeaderFold(hl, i + 1, k, res)

\* the mapping parse_metadata builds from the lines ls: the header lines up to
\* the first blank line, then the description block
ParseOfLines(ls) ==
    LET fromHeader == HeaderFold(HeaderOf(ls), 1, <<>>, EmptyDict)
    IN  IF HasDescription(BlockOf(ls))
        THEN DictSet(fromHeader, "Description", Str(Strip(Join(BlockOf(ls), "\n"))))
        ELSE fromHeader

\* the mapping a call of parse_metadata(text) returns when it runs alone
AloneParse(text) == ParseOfLines(TextLines(text))

\* the pair a call of extract_dependencies(md) returns when it runs alone
AloneDeps(md) == ResultOfSequence(GetRequiresDist(md).reqs)

\* a call on its own returns AloneParse and AloneDeps
AloneResults ==
    /\ pc = "done" => result = AloneParse(metadata_text)
    /\ dpc = "done" => <<dependencies, optional_dependencies>> = AloneDeps(metadata)

\* the calls in progress: the running one and the suspended ones
Calls == {Current} \cup {suspended[i] : i \in 1..Len(suspended)}

\* the call c has not raised, and what it has returned is what it returns alone
ReturnsAsAlone(c) ==
    /\ c.pc # "raised" /\ c.dpc # "raised"
    /\ c.pc = "done" => c.result = AloneParse(c.metadata_text)
    /\ c.dpc = "done" =>
           <<c.dependencies, c.optional_dependencies>> = AloneDeps(c.metadata)

\* the arguments of the calls in progress
Arguments == {<<c.metadata_text, c.metadata>> : c \in Calls}

\* C16: under every interleaving of two concurrent calls of parse_metadata and
\* extract_dependencies, each call returns what it returns when it runs alone
\* on its input (so equal inputs give equal results); a step of one call leaves
\* the other call's locals, input and result as they are, and no step changes
\* the input of any call.
C16_CallsDoNotInterfere ==
    /\ [](\A c \in Calls : ReturnsAsAlone(c))
    /\ [](\A c, d \in Calls :
             (c.pc = "done" /\ d.pc = "done" /\ c.metadata_text = d.metadata_text)
                 => c.result = d.result)
    /\ [][/\ Arguments' = Arguments
          /\ suspended' = suspended \/ (suspended' = <<Current>> /\ Current' = suspended[1])]_vars

\* C16 witness: two calls of parse_metadata on different documents are both
\* half-way through their header lines, each with its own partial mapping
C16_Witness ==
    /\ pc = "header" /\ li <= Len(header_lines)
    /\ Len(suspended) = 1
    /\ suspended[1].pc = "header"
    /\ suspended[1].metadata_text # metadata_text
    /\ DOMAIN result # {} /\ DOMAIN suspended[1].result # {}
    /\ result # suspended[1].result

-----------------------------------------------------------------------------
(* Further claims about parse_metadata *)

\* C18 as stated: in every returned mapping the Description field, when
\* present, is a single string, never a sequence.
C18_DescriptionIsString ==
    (pc = "done" /\ "Description" \in DOMAIN result) => IsStr(result["Description"])

\* the number of header lines of the document with the key Description
DescriptionHeaders == Cardinality(Occ(HeaderOf(TrimmedLines), "Description"))

\* C18, amended: the Description field of a returned mapping is a single string
\* when the document has a description block (the block's text, whatever the
\* header lines stored) or exactly one Description header line; with two or
\* more Description header lines and no description block it is the sequence
\* of their values.
C18_DescriptionIsStringUnlessRepeated ==
    (pc = "done" /\ "Description" \in DOMAIN result) =>
        /\ BlockOf(TrimmedLines) # <<>> =>
               result["Description"] = Str(Strip(Join(BlockOf(TrimmedLines), "\n")))
        /\ (BlockOf(TrimmedLines) = <<>> /\ DescriptionHeaders = 1) =>
               IsStr(result["Description"])
        /\ (BlockOf(TrimmedLines) = <<>> /\ DescriptionHeaders >= 2) =>
               /\ IsList(result["Description"])
               /\ Len(result["Description"].items) = DescriptionHeaders
        /\ BlockOf(TrimmedLines) # <<>> \/ DescriptionHeaders >= 1

\* C18 witness: the call returned on a document with Description header lines
\* and a description block, which replaced their values
C18_Witness ==
    /\ pc = "done"
    /\ DescriptionHeaders >= 2
    /\ BlockOf(TrimmedLines) # <<>>
    /\ IsStr(result["Description"])

\* the step on the header line at li glues its trimmed text onto the last
\* stored value of the key k and changes nothing else
GluesOnto(k) ==
    /\ DOMAIN result' = DOMAIN result
    /\ \A x \in DOMAIN result \ {k} : result'[x] = result[x]
    /\ result'[k] = [kind |-> result[k].kind,
                     items |-> [result[k].items EXCEPT ![Len(result[k].items)] =
                                   @ \o " " \o Strip(header_lines[li])]]
    /\ key' = key

\* the step on the header line at li adds and changes no field, and keeps the
\* current key
Dropped == result' = result /\ key' = key

\* C19 as stated: every header line that begins with a space or a tab is a
\* continuation line: with an active key its trimmed text is appended to that
\* key's last stored value, with none it is dropped.
C19_WhitespaceLedContinues ==
    [][(/\ pc = "header" /\ li <= Len(header_lines)
        /\ Ch(header_lines[li], 1) \in {" ", "\t"})
       => IF ActiveKey(li) # <<>> THEN GluesOnto(ActiveKey(li)[1]) ELSE Dropped]_vars

\* C19, amended: every header line that begins with a space is a continuation
\* line: with an active key its trimmed text is appended to that key's last
\* stored value, with none it is dropped; a header line that begins with a tab
\* is not one, it is dropped whether or not a key is active.
C19_SpaceLedContinues ==
    [][(pc = "header" /\ li <= Len(header_lines)) =>
          /\ Ch(header_lines[li], 1) = " " =>
                 IF ActiveKey(li) # <<>> THEN GluesOnto(ActiveKey(li)[1]) ELSE Dropped
          /\ Ch(header_lines[li], 1) = "\t" => Dropped]_vars

\* C19 witness: a tab-led line after a KEY: value line has been processed, and
\* the value of the key is as that line stored it
C19_Witness ==
    /\ pc = "header" /\ li >= 3
    /\ header_lines[li - 2] = "Name: a"
    /\ header_lines[li - 1] = "\ty"
    /\ key = <<"Name">>
    /\ result["Name"] = Str("a")

RECURSIVE FirstNonBlankFrom(_, _)
FirstNonBlankFrom(ls, i) ==
    IF i > Len(ls) \/ Strip(ls[i]) # "" THEN i ELSE FirstNonBlankFrom(ls, i + 1)

\* the position of the last line of ls, up to i, that is not blank (0 if none)
RECURSIVE LastNonBlankUpTo(_, _)
LastNonBlankUpTo(ls, i) ==
    IF i < 1 \/ Strip(ls[i]) # "" THEN i ELSE LastNonBlankUpTo(ls, i - 1)

\* s ends with suffix
EndsWith(s, suffix) ==
    Len(s) >= Len(suffix) /\ SubSeq(s, Len(s) - Len(suffix) + 1, Len(s)) = suffix

-----------------------------------------------------------------------------
(* The keys parse_metadata accepts *)

\* the line starts with one or more letters, digits or hyphens and a colon
\* right after them
WellKeyed(line) ==
    LET c == FindClass(line, 1, {":"})
    IN  /\ c >= 2 /\ c <= Len(line)
        /\ \A i \in 1..(c - 1) : Ch(line, i) \in Letters \cup Digits \cup {"-"}

\* what stands before the first colon of the line, and after it
BeforeColon(line) == SubSeq(line, 1, FindClass(line, 1, {":"}) - 1)
AfterColon(line) == From(line, FindClass(line, 1, {":"}) + 1)

\* the number of values the mapping stores
RECURSIVE Stored(_)
Stored(res) ==
    IF DOMAIN res = {} THEN 0
    ELSE LET k == CHOOSE x \in DOMAIN res : TRUE
         IN  Len(res[k].items) + Stored([x \in DOMAIN res \ {k} |-> res[x]])

\* C21: the step on a header line records a field (one more stored value,
\* under the text before the colon as key, which becomes the current key)
\* exactly when the line starts with a key of one or more letters, digits or
\* hyphens immediately followed by a colon; on any other line (another
\* character before the first colon, nothing before it, or no colon) the step
\* adds no key and no value; and every key of the mapping other than
\* Description is made of letters, digits and hyphens only.
C21_KeysAreLettersDigitsHyphens ==
    /\ [](\A k \in DOMAIN result \ {"Description"} :
              /\ k # ""
              /\ \A i \in 1..Len(k) : Ch(k, i) \in Letters \cup Digits \cup {"-"})
    /\ [][(pc = "header" /\ li <= Len(header_lines)) =>
             LET line == header_lines[li]
             IN  IF WellKeyed(line)
                 THEN /\ key' = <<BeforeColon(line)>>
                      /\ BeforeColon(line) \in DOMAIN result'
                      /\ DOMAIN result' = DOMAIN result \cup {BeforeColon(line)}
                      /\ Stored(result') = Stored(result) + 1
                      /\ LET v == result'[BeforeColon(line)].items
                         IN  v[Len(v)] = Strip(AfterColon(line))
                 ELSE /\ DOMAIN result' = DOMAIN result
                      /\ Stored(result') = Stored(result)
                      /\ key' = key]_vars

\* C21 witness: a call has returned on a document that has a line with an
\* underscore, a space or a dot before its colon, or with nothing before it,
\* after a line with a well-formed key
C21_Witness ==
    /\ pc = "done"
    /\ \E i \in 2..Len(header_lines) :
           /\ ~WellKeyed(header_lines[i])
           /\ FindClass(header_lines[i], 1, {":"}) <= Len(header_lines[i])
           /\ Ch(header_lines[i], 1) # " "
           /\ WellKeyed(header_lines[i - 1])
    /\ DOMAIN result = {"Name"}

\* the line is neither a continuation line (space-led, with a current key k)
\* nor a KEY: value line
NeitherKind(line, k) == ~(Ch(line, 1) = " " /\ k # <<>>) /\ ~WellKeyed(line)

\* the key of the last KEY: value line before header line i, as an Optional
RECURSIVE KeyBefore(_)
KeyBefore(i) ==
    IF i <= 1 THEN <<>>
    ELSE IF WellKeyed(header_lines[i - 1]) THEN <<BeforeColon(header_lines[i - 1])>>
    ELSE KeyBefore(i - 1)

\* C22: the step on a header line that is neither a continuation line nor a
\* KEY: value line changes neither the mapping nor the current key, and the
\* step on a continuation line that follows such a line glues its trimmed text
\* onto the last stored value of the key that was current before that line.
C22_IgnoredLineKeepsKey ==
    [][(pc = "header" /\ li <= Len(header_lines)) =>
          /\ NeitherKind(header_lines[li], key) => Dropped
          /\ (/\ li >= 2
              /\ Ch(header_lines[li], 1) = " "
              /\ Ch(header_lines[li - 1], 1) # " "
              /\ ~WellKeyed(header_lines[li - 1])
              /\ KeyBefore(li - 1) # <<>>)
             => GluesOnto(KeyBefore(li - 1)[1])]_vars

\* C22 witness: a line that is no field stands between a KEY: value line and a
\* continuation line, and the continuation has been glued onto the key's value
C22_Witness ==
    /\ pc = "header" /\ li >= 4
    /\ WellKeyed(header_lines[li - 3])
    /\ header_lines[li - 2] \in {"novalue", "A_b: v"}
    /\ header_lines[li - 1] = " x"
    /\ key = <<BeforeColon(header_lines[li - 3])>>
    /\ LET v == result[key[1]].items
       IN  v[Len(v)] = Strip(AfterColon(header_lines[li - 3])) \o " x"

-----------------------------------------------------------------------------
(* The values parse_metadata stores *)

\* the text has no leading and no trailing whitespace
Trimmed(s) == s = "" \/ (Ch(s, 1) \notin Whitespace /\ Ch(s, Len(s)) \notin Whitespace)

\* C28: after every step, every scalar value and every sequence element of the
\* mapping has no leading or trailing whitespace.
C28_ValuesAreTrimmed ==
    \A k \in DOMAIN result : \A j \in 1..Len(result[k].items) :
        Trimmed(result[k].items[j])

\* C28 witness: a call has returned on a document where a continuation line
\* follows a key whose value is empty
C28_Witness ==
    /\ pc = "done"
    /\ \E i \in 2..Len(header_lines) :
           /\ header_lines[i - 1] = "Name:"
           /\ header_lines[i] = " x"
    /\ "Name" \in DOMAIN result

-----------------------------------------------------------------------------
(* Further claims about extract_dependencies *)

\* the packages filed in the required sequence, and under the extra e
RequiredPackages == {dependencies[j].package : j \in 1..Len(dependencies)}

PackagesUnder(e) ==
    IF e \in DOMAIN optional_dependencies
    THEN {optional_dependencies[e][j].package : j \in 1..Len(optional_dependencies[e])}
    ELSE {}

\* C23: when the call has returned, a requirement that yields a Dependency is
\* in the required sequence if and only if its text holds no extra == "<name>"
\* clause, and a requirement whose marker holds such a clause, wherever it
\* stands, is filed under the named extra.  (The requirements of one call bear
\* different package names.)
C23_RequiredIffNoExtraMarker ==
    dpc = "done" =>
        \A k \in 1..Len(InputReqs) :
            LET r == InputReqs[k]
            IN  Parsable(r) =>
                    /\ ClaimedPackage(r) \in RequiredPackages <=> MarkerNames(r) = {}
                    /\ \A e \in MarkerNames(r) : ClaimedPackage(r) \in PackagesUnder(e)

\* C23 witness: a call has returned for a requirement whose extra clause
\* follows another condition; it is in the required sequence with the clause
\* in its condition, and under no extra
C23_Witness ==
    /\ dpc = "done"
    /\ \E k \in 1..Len(InputReqs) :
           InputReqs[k] = "foo; python_version < '3.8' and extra == 'test'"
    /\ \E j \in 1..Len(dependencies) :
           dependencies[j] = [package |-> "foo",
                              condition |-> <<"; python_version < '3.8' and extra == 'test'">>]
    /\ \A e \in DOMAIN optional_dependencies : "foo" \notin PackagesUnder(e)

-----------------------------------------------------------------------------
(* The claims about get_package_tags *)

\* the trimmed texts of the links of the card that have a <span>, in order
LinkNames(card) ==
    IF card.list_group = None THEN <<>>
    ELSE LET named == SelectSeq(card.list_group[1], LAMBDA a : a.span # None)
         IN  [j \in 1..Len(named) |-> Strip(named[j].span[1])]

\* what pypi-browser.org shows: the cards of the page that have a header and
\* at least one such link, as the trimmed header and the names, in order
ScrapedFrom(page) ==
    IF page = None THEN <<>>
    ELSE LET shown == SelectSeq(page[1], LAMBDA c : c.header # None /\ LinkNames(c) # <<>>)
         IN  [i \in 1..Len(shown) |->
                 [tag |-> Strip(shown[i].header[1]), names |-> LinkNames(shown[i])]]

\* the tags and wheel names of a sequence of PackageTag
TagsAndNames(tags) ==
    [i \in 1..Len(tags) |->
        [tag |-> tags[i].tag,
         names |-> [j \in 1..Len(tags[i].wheels) |-> tags[i].wheels[j]["name"]]]]

\* the pypi.org fetch gave nothing, no JSON, or a JSON object whose releases
\* (if it has the member) is an object
MissingInvalidOrReleases(response) ==
    \/ response.kind \in {"none", "invalid"}
    \/ /\ response.kind = "object"
       /\ "releases" \in DOMAIN response.members =>
              response.members["releases"].kind = "object"

\* C29: every PackageTag that get_package_tags returns has at least one wheel
\* (so tags[0].wheels[0] exists when the result is not empty), the returned
\* tags are the tags scraped from pypi-browser.org, in the same order with the
\* same wheel names in the same order, whatever the pypi.org fetch returned; the
\* result is empty when the pypi-browser.org fetch failed; and when the pypi.org
\* fetch gave nothing, no JSON or an object with or without a matching release,
\* the enrichment does not raise.
C29_TagsAreTheScrapedTags ==
    /\ tpc = "done" =>
           /\ \A i \in 1..Len(enriched_tags) :
                  /\ Len(enriched_tags[i].wheels) >= 1
                  /\ {"name", "browser_url"} \subseteq DOMAIN enriched_tags[i].wheels[1]
           /\ TagsAndNames(enriched_tags) = ScrapedFrom(package_page)
           /\ package_page = None => enriched_tags = <<>>
    /\ (tpc = "raised" /\ pypi_data.kind # "none") => ~MissingInvalidOrReleases(pypi_response)

\* C29 witness: two tags have been returned, one with a wheel that pypi.org
\* lists and a wheel that it lists without a url, one with a wheel that it does
\* not list
C29_Witness ==
    /\ tpc = "done"
    /\ Len(enriched_tags) = 2
    /\ Len(enriched_tags[1].wheels) = 2
    /\ \A j \in 1..2 : "pypi_url" \in DOMAIN enriched_tags[1].wheels[j]
    /\ enriched_tags[1].wheels[1]["pypi_url"] = ""
    /\ enriched_tags[1].wheels[2]["pypi_url"] = "https://f/1/b"
    /\ "pypi_url" \notin DOMAIN enriched_tags[2].wheels[1]

\* C29 witness of the other fetches: tags have been returned although pypi.org
\* gave no JSON
C29_WitnessInvalidJson ==
    /\ tpc = "done"
    /\ pypi_response = InvalidJson
    /\ Len(enriched_tags) = 2

-----------------------------------------------------------------------------
(* The claims about get_package_metadata *)

\* C26: every value of the mapping that get_package_metadata returns is a
\* single string or a sequence of strings, whatever the METADATA page and the
\* pypi.org JSON hold (members present, absent or null).
C26_ValuesAreStringsOrSequences ==
    mpc = "done" =>
        \A k \in DOMAIN merged_metadata : merged_metadata[k].kind \in {"str", "list"}

\* C26 witness: a mapping has been returned for a JSON whose summary is null,
\* and holds a Summary
C26_Witness ==
    /\ mpc = "done"
    /\ json_response.kind = "object"
    /\ "info" \in DOMAIN json_response.members
    /\ "summary" \in DOMAIN json_response.members["info"].members
    /\ json_response.members["info"].members["summary"] = NoneValue
    /\ "Summary" \in DOMAIN merged_metadata

\* the mapping of the METADATA document of the fetched page (empty when the page
\* has no content or no <pre> element)
ParsedPage ==
    IF HasPre(metadata_page) THEN AloneParse(metadata_page[1].pre[1]) ELSE EmptyDict

\* the members of the info object of the fetched JSON
InfoOfResponse ==
    IF json_response.kind = "object"
    THEN IF "info" \in DOMAIN json_response.members /\ json_response.members["info"].kind = "object"
         THEN json_response.members["info"].members
         ELSE [m \in {} |-> NoneValue]
    ELSE [m \in {} |-> NoneValue]

\* C30: in the mapping that get_package_metadata returns, every key of the
\* parsed METADATA of pypi-browser.org has the value parsed there, also when the
\* pypi.org JSON has a value for the key; every key that only the JSON metadata
\* has keeps the JSON value (a member of the info object); there are no other
\* keys; and the mapping is empty when both fetches failed.
C30_BrowserValueWins ==
    mpc = "done" =>
        LET parsed == ParsedPage
        IN  /\ browser_metadata = parsed
            /\ DOMAIN merged_metadata = DOMAIN parsed \cup DOMAIN pypi_metadata
            /\ \A k \in DOMAIN parsed : merged_metadata[k] = parsed[k]
            /\ \A k \in DOMAIN pypi_metadata \ DOMAIN parsed :
                   /\ merged_metadata[k] = pypi_metadata[k]
                   /\ \E m \in DOMAIN InfoOfResponse : merged_metadata[k] = InfoOfResponse[m]
            /\ (metadata_page = None /\ json_response = NoResponse) =>
                   merged_metadata = EmptyDict

\* C30 witness: a mapping has been returned whose Name is in the METADATA and,
\* with another value, in the JSON, and whose Summary is in the JSON only
C30_Witness ==
    /\ mpc = "done"
    /\ "Name" \in DOMAIN browser_metadata /\ "Name" \in DOMAIN pypi_metadata
    /\ browser_metadata["Name"] # pypi_metadata["Name"]
    /\ merged_metadata["Name"] = browser_metadata["Name"]
    /\ "Summary" \in DOMAIN merged_metadata
    /\ "Summary" \notin DOMAIN browser_metadata

-----------------------------------------------------------------------------
(* The claims about from_package_name *)

\* C24: from_package_name raises ValueError when get_package_tags returned no
\* tags, and when get_package_tags returned tags it does not raise: it goes on
\* to the metadata of the first wheel of the first tag
C24_RaisesOnlyWithoutTags ==
    (fpc \in {"raised", "metadata"} /\ tpc = "done") =>
        IF enriched_tags = <<>>
        THEN fpc = "raised" /\ error = "ValueError"
        ELSE fpc = "metadata" /\ wheel_url = enriched_tags[1].wheels[1].browser_url

\* get_package_tags returned a tag whose first wheel was found at pypi.org,
\* and from_package_name raised KeyError
C24_Witness ==
    /\ fpc = "raised"
    /\ error = "KeyError"
    /\ tpc = "done"
    /\ enriched_tags # <<>>
    /\ "pypi_url" \in DOMAIN enriched_tags[1].wheels[1]

\* get_package_tags returned no tags, and from_package_name raised ValueError
C24_WitnessNoTags ==
    /\ fpc = "raised"
    /\ error = "ValueError"
    /\ tpc = "done"
    /\ enriched_tags = <<>>

-----------------------------------------------------------------------------
(* The claims about the commands *)

\* the command ended at the test of the package name
Rejected ==
    /\ cpc = "exited"
    /\ echoed = <<EchoErr("not a valid package name")>>

\* C25: an info command that was given a valid package name and met no failed
\* fetch ends with exit status 0 and with no message on the error stream
C25_InfoShowsInformation ==
    (/\ command = "info"
     /\ cpc = "exited"
     /\ ValidatePackageName(NameOfSpec(command, package_spec))
     /\ tpc # "raised"
     /\ mpc # "raised")
        => /\ exit_status = Some(0)
           /\ \A i \in 1..Len(echoed) : ~echoed[i].err

\* info pk has ended with the error message and exit status 1, and no fetch
\* was made
C25_Witness ==
    /\ command = "info"
    /\ package_spec = "pk"
    /\ cpc = "exited"
    /\ ~Rejected
    /\ exit_status = Some(1)
    /\ echoed = <<EchoErr("Error")>>
    /\ tpc = "idle"
    /\ mpc = "idle"

\* a non-empty string made only of letters, digits, '.', '_' and '-' that
\* begins and ends with a letter or digit
NameAsDescribed(name) ==
    /\ name # ""
    /\ \A i \in 1..Len(name) : Ch(name, i) \in AlphaNumerics \cup {".", "_", "-"}
    /\ Ch(name, 1) \in AlphaNumerics
    /\ Ch(name, Len(name)) \in AlphaNumerics

\* C27: a command rejects its package name exactly when the name is not a
\* non-empty string of letters, digits, '.', '_' and '-' that begins and ends
\* with a letter or digit, and it exits with status 1 exactly when it rejected
\* the name
C27_RejectsExactlyOtherNames ==
    /\ cpc \notin {"idle", "start"} =>
           (Rejected <=> ~NameAsDescribed(NameOfSpec(command, package_spec)))
    /\ cpc = "exited" => (exit_status = Some(1) <=> Rejected)

\* the tags command has rejected the name q and exited with status 1
C27_Witness ==
    /\ command = "tags"
    /\ package_spec = "q"
    /\ NameAsDescribed("q")
    /\ Rejected
    /\ exit_status = Some(1)

\* a command has accepted a name that ends with a newline
C27_WitnessNewline ==
    /\ package_spec = "pk\n"
    /\ ~NameAsDescribed("pk\n")
    /\ cpc = "exited"
    /\ ~Rejected
    /\ exit_status = Some(0)

====
